---- MODULE Spec2Model ----
(***************************************************************************)
(* A model of mvcs, the modular video clipping system: the duration and    *)
(* timestamp parsers (mvcs/time.py), the Clip / Video / Job data model and *)
(* the job runner (mvcs/job.py), and the filename replacement mapping of   *)
(* the configuration (mvcs/config.py).                                     *)
(*                                                                         *)
(* A Python str is a sequence of one-character strings.  A value of the    *)
(* job document (the result of YAML deserialization) is a tagged record:   *)
(* Absent (no such key), None, Str(s), List(xs) or a dict record.          *)
(***************************************************************************)
EXTENDS Integers, Sequences, FiniteSets, TLC

VARIABLES
    data,       \* Clip.from_dict: the record it is given
    clipResult, \* Clip.from_dict: what it returned or raised
    call,       \* Clip.path_str: the arguments of the call
    path,       \* Clip.path_str: the filename it returned, as Str(s)
    doc,        \* the job document
    config,     \* the configuration given to Job.run
    pc,         \* main: where the program is
    job,        \* the Job built by Job.from_dict
    vi,         \* Job.run: index of the current video
    ci,         \* Video.write_clips: index of the current clip
    trace,      \* the program's effects so far: file checks, trim invocations
    err,        \* the error the program ended with
    tdIn,       \* timedelta_from_str: the string it is given, as Str(s)
    td,         \* a datetime.timedelta: what timedelta_from_str returned or raised
    tdStr,      \* timedelta_to_str(td), as Str(s)
    tdPathStr,  \* timedelta_to_path_str(td), as Str(s)
    tdBack,     \* timedelta_from_str(tdStr)
    between,    \* Clip.path_str: another call has been made since the first
    again,      \* Clip.path_str: what a second call with the same arguments returned
    opts,       \* Config.from_argv: the arguments of its -r options, in order
    prefs,      \* Config.from_argv: the Prefs it is given, "none" or "given"
    objects,    \* the Replace objects of the default Prefs() and of the given Prefs
    parsed,     \* Config.from_argv: the Config it returned or what it raised
    ncalls,     \* Config.from_argv: the calls made so far
    dtIn,       \* datetime_from_str: the string it is given, as Str(s)
    dtOut       \* datetime_from_str: what it returned or raised

clipVars == <<data, clipResult>>
pathVars == <<call, path, between, again>>
jobVars == <<doc, config, pc, job, vi, ci, trace, err>>
timeVars == <<tdIn, td, tdStr, tdPathStr, tdBack>>
argvVars == <<opts, prefs, objects, parsed, ncalls>>
dtVars == <<dtIn, dtOut>>
vars == <<data, clipResult, call, path, doc, config, pc, job, vi, ci, trace, err,
          tdIn, td, tdStr, tdPathStr, tdBack, between, again,
          opts, prefs, objects, parsed, ncalls, dtIn, dtOut>>

----------------------------------------------------------------------------
(* Bounds of the model. *)

\* longest "time" string enumerated over TimeAlphabet
MaxTimeLen == 4
\* longest video title enumerated over TitleAlphabet
MaxTitleLen == 2
\* most entries of an enumerated replacement mapping
MaxReplaceLen == 2
\* most videos of a job document
MaxVideos == 2
\* most clip entries of a job document, over all its videos
MaxClips == 3
\* the durations enumerated second by second run from -MaxSeconds to MaxSeconds
MaxSeconds == 3700

----------------------------------------------------------------------------
(* Python strings.                                                        *)
(* An intermediate result that the code keeps in a local variable is       *)
(* handed on as an operator parameter.                                     *)

Whitespace == {" ", "\t", "\n"}

Digits == {"0", "1", "2", "3", "4", "5", "6", "7", "8", "9"}

DigitVal(c) ==
    CASE c = "0" -> 0 [] c = "1" -> 1 [] c = "2" -> 2 [] c = "3" -> 3
      [] c = "4" -> 4 [] c = "5" -> 5 [] c = "6" -> 6 [] c = "7" -> 7
      [] c = "8" -> 8 [] c = "9" -> 9

DigitChar(n) ==
    CASE n = 0 -> "0" [] n = 1 -> "1" [] n = 2 -> "2" [] n = 3 -> "3"
      [] n = 4 -> "4" [] n = 5 -> "5" [] n = 6 -> "6" [] n = 7 -> "7"
      [] n = 8 -> "8" [] n = 9 -> "9"

\* s[n:] and s[:n]
Drop(s, n) == SubSeq(s, n + 1, Len(s))
Take(s, n) == SubSeq(s, 1, n)

StartsWith(s, p) == Len(p) <= Len(s) /\ Take(s, Len(p)) = p
EndsWith(s, p) == Len(p) <= Len(s) /\ Drop(s, Len(s) - Len(p)) = p

\* the least and the greatest element of a set of positive numbers, 0 when empty
MinOf(S) == IF S = {} THEN 0 ELSE CHOOSE i \in S : \A j \in S : i <= j
MaxOf(S) == IF S = {} THEN 0 ELSE CHOOSE i \in S : \A j \in S : i >= j

\* the indexes at which sub occurs in s
Hits(s, sub) == {i \in 1..(Len(s) - Len(sub) + 1) : SubSeq(s, i, i + Len(sub) - 1) = sub}

\* str.find(sub) + 1 and str.rfind(sub) + 1: 0 when sub does not occur
Find(s, sub) == MinOf(Hits(s, sub))
RFind(s, sub) == MaxOf(Hits(s, sub))

Contains(s, sub) == Hits(s, sub) # {}

\* str.strip()
RECURSIVE LStrip(_)
LStrip(s) == IF s # <<>> /\ Head(s) \in Whitespace THEN LStrip(Tail(s)) ELSE s

RECURSIVE RStrip(_)
RStrip(s) ==
    IF s # <<>> /\ s[Len(s)] \in Whitespace THEN RStrip(Take(s, Len(s) - 1)) ELSE s

Strip(s) == RStrip(LStrip(s))

\* str.lstrip(c): every leading c is removed
RECURSIVE LStripChar(_, _)
LStripChar(s, c) == IF s # <<>> /\ Head(s) = c THEN LStripChar(Tail(s), c) ELSE s

SplitAfterSign(s, sep, n, i) ==
    IF i = 0 THEN <<s>>
    ELSE IF i = 1 /\ Contains(Tail(s), sep)
    THEN <<Take(s, Find(Tail(s), sep)), Drop(s, Find(Tail(s), sep) + Len(sep))>>
    ELSE <<Take(s, i - 1), Drop(s, i + Len(sep) - 1)>>

SplitAtLast(s, sep, n) ==
    IF RFind(s, sep) = 0 THEN <<s>>
    ELSE <<Take(s, RFind(s, sep) - 1), Drop(s, RFind(s, sep) + Len(sep) - 1)>>

\* str.split(sep, maxsplit=n), from the left; i is where sep is first found
RECURSIVE Split(_, _, _)
SplitAt(s, sep, n, i) ==
    IF n = 0 \/ i = 0 THEN <<s>>
    ELSE <<Take(s, i - 1)>> \o Split(Drop(s, i + Len(sep) - 1), sep, n - 1)

Split(s, sep, n) == SplitAt(s, sep, n, Find(s, sep))

\* str.rsplit(sep, maxsplit=n), from the right; i is where sep is last found
RECURSIVE RSplit(_, _, _)
RSplitAt(s, sep, n, i) ==
    IF n = 0 \/ i = 0 THEN <<s>>
    ELSE RSplit(Take(s, i - 1), sep, n - 1) \o <<Drop(s, i + Len(sep) - 1)>>

RSplit(s, sep, n) == RSplitAt(s, sep, n, RFind(s, sep))

\* str.replace(old, new): every non-overlapping occurrence, left to right
\* (old is never empty: Replace.from_dict and Config.from_argv refuse an empty key)
RECURSIVE StrReplace(_, _, _)
StrReplaceAt(s, old, new, i) ==
    IF i = 0 THEN s
    ELSE Take(s, i - 1) \o new \o StrReplace(Drop(s, i + Len(old) - 1), old, new)

StrReplace(s, old, new) == StrReplaceAt(s, old, new, Find(s, old))

\* sep.join(parts)
RECURSIVE Join(_, _)
Join(sep, parts) ==
    IF parts = <<>> THEN <<>>
    ELSE IF Len(parts) = 1 THEN parts[1]
    ELSE parts[1] \o sep \o Join(sep, Tail(parts))

\* the decimal digits of n >= 0
RECURSIVE NatStr(_)
NatStr(n) == IF n < 10 THEN <<DigitChar(n)>> ELSE NatStr(n \div 10) \o <<DigitChar(n % 10)>>

\* n >= 0 in at least width digits
RECURSIVE ZeroPad(_, _)
ZeroPad(s, width) == IF Len(s) >= width THEN s ELSE ZeroPad(<<"0">> \o s, width)

Pad2(n) == ZeroPad(NatStr(n), 2)
Pad4(n) == ZeroPad(NatStr(n), 4)

FoldChar(c) ==
    CASE c = "A" -> "a" [] c = "B" -> "b" [] c = "C" -> "c" [] c = "D" -> "d"
      [] c = "E" -> "e" [] c = "F" -> "f" [] c = "G" -> "g" [] c = "H" -> "h"
      [] c = "I" -> "i" [] c = "J" -> "j" [] c = "K" -> "k" [] c = "L" -> "l"
      [] c = "M" -> "m" [] c = "N" -> "n" [] c = "O" -> "o" [] c = "P" -> "p"
      [] c = "Q" -> "q" [] c = "R" -> "r" [] c = "S" -> "s" [] c = "T" -> "t"
      [] c = "U" -> "u" [] c = "V" -> "v" [] c = "W" -> "w" [] c = "X" -> "x"
      [] c = "Y" -> "y" [] c = "Z" -> "z" [] OTHER -> c

NoFold(s) == s

\* str.casefold()
casefold(s) == [i \in 1..Len(s) |-> FoldChar(s[i])]

\* the strings over alphabet of length n, and of length at most n
RECURSIVE StringsOfLen(_, _)
StringsOfLen(alphabet, n) ==
    IF n = 0 THEN {<<>>}
    ELSE {<<c>> \o s : c \in alphabet, s \in StringsOfLen(alphabet, n - 1)}

Strings(alphabet, n) == UNION {StringsOfLen(alphabet, k) : k \in 0..n}

----------------------------------------------------------------------------
(* Values of a deserialized document. *)

Absent == [t |-> "absent"]
None == [t |-> "none"]
Str(s) == [t |-> "str", s |-> s]
List(xs) == [t |-> "list", xs |-> xs]

\* str(value) of a scalar
PyStr(v) == IF v.t = "none" THEN <<"N", "o", "n", "e">> ELSE v.s

\* raise Error(msg), and an Error whose message names something
Error(msg) == [kind |-> "Error", msg |-> msg]
ErrorAbout(msg, what) == [kind |-> "Error", msg |-> msg, what |-> what]

Idle == [t |-> "idle"]
NotCalled == [kind |-> "none"]

----------------------------------------------------------------------------
(* mvcs/time.py: durations.  A datetime.timedelta of whole seconds is its  *)
(* number of seconds.                                                      *)

\* the digits of an int() literal: single underscores may sit between digits
IsIntBody(s) ==
    /\ s # <<>>
    /\ \A i \in 1..Len(s) : s[i] \in Digits \cup {"_"}
    /\ s[1] # "_" /\ s[Len(s)] # "_"
    /\ \A i \in 1..(Len(s) - 1) : ~(s[i] = "_" /\ s[i + 1] = "_")

RECURSIVE IntBodyVal(_, _)
IntBodyVal(s, acc) ==
    IF s = <<>> THEN acc
    ELSE IF Head(s) = "_" THEN IntBodyVal(Tail(s), acc)
    ELSE IntBodyVal(Tail(s), 10 * acc + DigitVal(Head(s)))

\* the digits of an int() literal without underscores and leading zeros
RECURSIVE SigDigits(_)
SigDigits(s) ==
    IF s = <<>> THEN <<>>
    ELSE IF Head(s) \in {"_", "0"} THEN SigDigits(Tail(s))
    ELSE SelectSeq(s, LAMBDA c : c # "_")

\* A literal of 15 digits or more is only marked huge: as hours, minutes or
\* seconds it is beyond what a timedelta holds.
IsHuge(body) == Len(SigDigits(body)) >= 15

IntValue(val, huge) == [kind |-> "int", huge |-> huge, val |-> val]

IntOfBody(body, negative) ==
    IF ~IsIntBody(body) THEN [kind |-> "ValueError"]
    ELSE IF IsHuge(body) THEN IntValue(IF negative THEN 0 - 1 ELSE 1, TRUE)
    ELSE IntValue(IF negative THEN 0 - IntBodyVal(body, 0) ELSE IntBodyVal(body, 0), FALSE)

IntOfStripped(s) ==
    IF s # <<>> /\ Head(s) \in {"+", "-"} THEN IntOfBody(Tail(s), Head(s) = "-")
    ELSE IntOfBody(s, FALSE)

\* int(x): surrounding whitespace and one sign are allowed; ValueError otherwise
int(x) == IntOfStripped(Strip(x))

\* sign_factor * datetime.timedelta(hours=..., minutes=..., seconds=...):
\* OverflowError beyond 999999999 days
timedelta(sign_factor, hours, minutes, seconds) ==
    IF hours.huge \/ minutes.huge \/ seconds.huge
    THEN [kind |-> "OverflowError"]
    ELSE [kind |-> "timedelta",
          secs |-> sign_factor * (hours.val * 3600 + minutes.val * 60 + seconds.val)]

GetPartFromLeft(parts, x) ==
    IF Len(parts) > x THEN parts[x + 1] ELSE IntValue(0, FALSE)

\* get_part of line 42; parts is kept in the order of the string, so that
\* parts[x] of the reversed list is the x-th from the end
get_part(parts, x) ==
    IF Len(parts) > x THEN parts[Len(parts) - x] ELSE IntValue(0, FALSE)

\* lines 32-47, for the list parts of int(x) results
timedelta_of_parts(parts, sign_factor) ==
    IF \E i \in 1..Len(parts) : parts[i].kind = "ValueError"
    THEN Error("error parsing timedelta")
    ELSE IF \E i \in 1..Len(parts) : parts[i].val < 0
    THEN Error("error parsing timedelta")
    ELSE timedelta(sign_factor, get_part(parts, 2), get_part(parts, 1), get_part(parts, 0))

\* [int(x) for x in ...]
IntsOf(fields) == [i \in 1..Len(fields) |-> int(fields[i])]

timedelta_from_str(td_s) ==
    timedelta_of_parts(
        IntsOf(RSplit(IF StartsWith(td_s, <<"-">>) THEN LStripChar(td_s, "-") ELSE td_s,
                      <<":">>, 2)),
        IF StartsWith(td_s, <<"-">>) THEN 0 - 1 ELSE 1)

\* timedelta_components(delta_t, allow_negative=...), lines 62-66, for the
\* seconds and sign of lines 55-60
components_minutes(sign, hours, seconds) ==
    <<sign, hours, seconds \div 60, seconds - (seconds \div 60) * 60>>

components_of(sign, seconds) ==
    components_minutes(sign, seconds \div 3600, seconds - (seconds \div 3600) * 3600)

ComponentsUnclamped(delta_t, allow_negative) ==
    components_of(IF delta_t >= 0 THEN 1 ELSE 0 - 1,
                  IF delta_t >= 0 THEN delta_t ELSE 0 - delta_t)

timedelta_components(delta_t, allow_negative) ==
    IF allow_negative
    THEN components_of(IF delta_t >= 0 THEN 1 ELSE 0 - 1,
                       IF delta_t >= 0 THEN delta_t ELSE 0 - delta_t)
    ELSE components_of(1, IF delta_t >= 0 THEN delta_t ELSE 0)

\* the f-string of line 71
path_str_of_components(c) ==
    NatStr(c[2]) \o <<"h">> \o Pad2(c[3]) \o <<"m">> \o Pad2(c[4]) \o <<"s">>

timedelta_to_path_str(delta_t) ==
    path_str_of_components(timedelta_components(delta_t, FALSE))

StrOfComponentsUnsigned(c) ==
    IF c[2] > 0 THEN NatStr(c[2]) \o <<":">> \o Pad2(c[3]) \o <<":">> \o Pad2(c[4])
    ELSE IF c[3] > 0 THEN NatStr(c[3]) \o <<":">> \o Pad2(c[4])
    ELSE NatStr(c[4])

\* the f-strings of lines 76-81
str_of_components(c) ==
    (IF c[1] < 0 THEN <<"-">> ELSE <<>>)
        \o (IF c[2] > 0 THEN NatStr(c[2]) \o <<":">> \o Pad2(c[3]) \o <<":">> \o Pad2(c[4])
            ELSE IF c[3] > 0 THEN NatStr(c[3]) \o <<":">> \o Pad2(c[4])
            ELSE NatStr(c[4]))

timedelta_to_str(delta_t) ==
    str_of_components(timedelta_components(delta_t, TRUE))

----------------------------------------------------------------------------
(* mvcs/time.py: timestamps.  A datetime.datetime is the number of days    *)
(* since 1970-01-01 and the second of the day.                             *)

IsLeap(y) == (y % 4 = 0 /\ y % 100 # 0) \/ y % 400 = 0

DaysInMonth(y, m) ==
    IF m = 2 THEN (IF IsLeap(y) THEN 29 ELSE 28)
    ELSE IF m \in {4, 6, 9, 11} THEN 30 ELSE 31

\* the proleptic Gregorian calendar of datetime: days since 1970-01-01 of the
\* doy-th day of the year y that begins in March
DaysOfMarchYear(y, doy) ==
    (y \div 400) * 146097 + (y % 400) * 365 + (y % 400) \div 4 - (y % 400) \div 100
        + doy - 719468

DaysFromCivil(year, m, d) ==
    DaysOfMarchYear(IF m <= 2 THEN year - 1 ELSE year,
                    (153 * (IF m > 2 THEN m - 3 ELSE m + 9) + 2) \div 5 + d - 1)

\* the year of its 400-year era in which the doe-th day of the era falls
YearOfEra(doe) == (doe - doe \div 1460 + doe \div 36524 - doe \div 146096) \div 365

CivilOfMonth(y, doy, mp) ==
    [y |-> y + (IF mp < 10 THEN 0 ELSE 1),
     m |-> IF mp < 10 THEN mp + 3 ELSE mp - 9,
     d |-> doy - (153 * mp + 2) \div 5 + 1]

CivilOfDayOfYear(y, doy) == CivilOfMonth(y, doy, (5 * doy + 2) \div 153)

CivilOfEra(era, doe) ==
    CivilOfDayOfYear(YearOfEra(doe) + era * 400,
                     doe - (365 * YearOfEra(doe) + YearOfEra(doe) \div 4
                            - YearOfEra(doe) \div 100))

\* the year, month and day of a number of days since 1970-01-01
CivilFromDays(days) == CivilOfEra((days + 719468) \div 146097, (days + 719468) % 146097)

datetime(y, m, d, hh, mm, ss) ==
    [kind |-> "datetime", days |-> DaysFromCivil(y, m, d), secs |-> hh * 3600 + mm * 60 + ss]

DatetimeWithoutDelta(date, delta) == date

\* date + delta, delta a timedelta in seconds
DatetimeAdd(date, delta) ==
    [kind |-> "datetime", days |-> date.days + (date.secs + delta) \div 86400,
     secs |-> (date.secs + delta) % 86400]

FormatCivil(c, secs, dsep, tsep) ==
    Pad4(c.y) \o <<"-">> \o Pad2(c.m) \o <<"-">> \o Pad2(c.d) \o dsep
        \o Pad2(secs \div 3600) \o tsep \o Pad2((secs % 3600) \div 60)
        \o tsep \o Pad2(secs % 60)

\* date.strftime("%Y-%m-%d" + dsep + "%H" + tsep + "%M" + tsep + "%S")
strftime(date, dsep, tsep) == FormatCivil(CivilFromDays(date.days), date.secs, dsep, tsep)

AllDigits(s) == \A i \in 1..Len(s) : s[i] \in Digits

\* the length of the longest prefix of s made of characters of set
RECURSIVE Run(_, _)
Run(s, set) == IF s # <<>> /\ Head(s) \in set THEN 1 + Run(Tail(s), set) ELSE 0

\* a strptime field of one or two digits with a value in lo..hi
FieldOk(tok, lo, hi) ==
    /\ Len(tok) \in {1, 2}
    /\ AllDigits(tok)
    /\ IntBodyVal(tok, 0) \in lo..hi

\* datetime.datetime.strptime(dt_s, "%Y-%m-%d" + sep + "%H:%M:%S"), sep "T" or " ":
\* the pattern is matched ignoring case, a space of the format matches any run
\* of whitespace, and %d also matches a space and one digit.  The string is
\* read field by field, each operator taking what is left of it.

\* %H:%M:%S, then datetime(...): ValueError for year 0, a day the month has
\* not, second 60 or 61
StrpTime(y, m, d, hms) ==
    IF ~(Len(hms) = 3 /\ FieldOk(hms[1], 0, 23) /\ FieldOk(hms[2], 0, 59)
         /\ FieldOk(hms[3], 0, 61)) THEN [kind |-> "ValueError"]
    ELSE IF y < 1 \/ d > DaysInMonth(y, m) \/ IntBodyVal(hms[3], 0) > 59
    THEN [kind |-> "ValueError"]
    ELSE datetime(y, m, d, IntBodyVal(hms[1], 0), IntBodyVal(hms[2], 0),
                  IntBodyVal(hms[3], 0))

\* the separator, sepLen characters of rest
StrpSep(y, m, d, rest, sepLen) ==
    IF sepLen = 0 THEN [kind |-> "ValueError"]
    ELSE StrpTime(y, m, d, Split(Drop(rest, sepLen), <<":">>, 3))

SepLen(rest, sep) ==
    IF sep = "T" THEN (IF rest # <<>> /\ Head(rest) \in {"T", "t"} THEN 1 ELSE 0)
    ELSE Run(rest, Whitespace \cup {"\r", "\f"})

\* %d is dTok, after lead spaces
StrpDayTok(y, m, dTok, lead, rest, sep) ==
    IF ~(FieldOk(dTok, 1, 31) /\ (lead = 1 => Len(dTok) = 1)) THEN [kind |-> "ValueError"]
    ELSE StrpSep(y, m, IntBodyVal(dTok, 0), rest, SepLen(rest, sep))

StrpDayRun(y, m, rest, lead, n, sep) ==
    StrpDayTok(y, m, SubSeq(rest, lead + 1, lead + n), lead, Drop(rest, lead + n), sep)

StrpDayLead(y, m, rest, lead, sep) ==
    StrpDayRun(y, m, rest, lead, Run(Drop(rest, lead), Digits), sep)

StrpDay(y, m, rest, sep) ==
    StrpDayLead(y, m, rest, IF rest # <<>> /\ Head(rest) = " " THEN 1 ELSE 0, sep)

\* %m- ends at i1
StrpMonthAt(y, rest, i1, sep) ==
    IF ~(i1 > 0 /\ FieldOk(Take(rest, i1 - 1), 1, 12)) THEN [kind |-> "ValueError"]
    ELSE StrpDay(y, IntBodyVal(Take(rest, i1 - 1), 0), Drop(rest, i1), sep)

StrpMonth(y, rest, sep) == StrpMonthAt(y, rest, Find(rest, <<"-">>), sep)

strptime(dt_s, sep) ==
    IF ~(Len(dt_s) >= 5 /\ AllDigits(Take(dt_s, 4)) /\ dt_s[5] = "-")
    THEN [kind |-> "ValueError"]
    ELSE StrpMonth(IntBodyVal(Take(dt_s, 4), 0), Drop(dt_s, 5), sep)

\* the loop of lines 11-16 for what strptime gives with "T" and with " "
FirstParsed(withT, withSpace) ==
    IF withT.kind = "datetime" THEN withT
    ELSE IF withSpace.kind = "datetime" THEN withSpace
    ELSE Error("error parsing datetime")

datetime_from_str(dt_s) == FirstParsed(strptime(dt_s, "T"), strptime(dt_s, " "))

----------------------------------------------------------------------------
(* mvcs/job.py: Clip. *)

\* a clip record of the document
ClipDict(time, title) == [t |-> "dict", time |-> time, title |-> title]

Clip(end, start, title) == [kind |-> "Clip", end |-> end, start |-> start, title |-> title]

\* the index of the first result that is not of the kinds given, 0 if there is none
FirstRaised(results, kinds) == MinOf({i \in 1..Len(results) : results[i].kind \notin kinds})

ComprehensionSkipping(results, kinds) ==
    [kind |-> "list", xs |-> SelectSeq(results, LAMBDA r : r.kind \in kinds)]

\* [f(x) for x in xs]: the list of results, or what the first failing f(x) raised
Comprehension(results, kinds) ==
    IF FirstRaised(results, kinds) = 0 THEN [kind |-> "list", xs |-> results]
    ELSE results[FirstRaised(results, kinds)]

BadStartEndStrict(start, end) == end < start

\* the comparison of line 39 that refuses a clip
BadStartEnd(start, end) == end <= start

ClipOfTimesTrimmed(time, title) ==
    IF time.kind # "list" THEN time
    ELSE IF Len(time.xs) # 2
    THEN Error("bad clip data")
    ELSE IF BadStartEnd(time.xs[1].secs, time.xs[2].secs)
    THEN Error("bad clip start/end")
    ELSE IF Strip(title) = <<>>
    THEN Error("bad clip title")
    ELSE Clip(time.xs[2].secs, time.xs[1].secs, Strip(title))

\* lines 35-45, for the list time of line 34
ClipOfTimes(time, title) ==
    IF time.kind # "list" THEN time
    ELSE IF Len(time.xs) # 2
    THEN Error("bad clip data")                       \* ValueError: unpacking
    ELSE IF BadStartEnd(time.xs[1].secs, time.xs[2].secs)
    THEN Error("bad clip start/end")
    ELSE IF title = <<>>
    THEN Error("bad clip title")
    ELSE Clip(time.xs[2].secs, time.xs[1].secs, title)

TimesOf(halves) == [i \in 1..Len(halves) |-> timedelta_from_str(Strip(halves[i]))]

Clip_from_dict(d) ==
    IF d.title.t = "absent" \/ d.time.t = "absent"
    THEN Error("bad clip data")                       \* KeyError
    ELSE ClipOfTimes(Comprehension(TimesOf(Split(PyStr(d.time), <<"-">>, 1)), {"timedelta"}),
                     PyStr(d.title))

----------------------------------------------------------------------------
(* mvcs/config.py: the replacement mapping.  A Replace is the sequence of  *)
(* its (old, new) items in iteration order, the keys distinct.             *)

\* Prefs.filename_replace of Prefs(), which Config.default() hands on
DefaultReplace == <<>>

----------------------------------------------------------------------------
(* mvcs/job.py: Clip.path_str. *)

ItemsConsumed(replace) == <<>>

\* the mapping once the loop of lines 65-66 has run: items() only reads it
ItemsRead(replace) == replace

ReplaceChainMappingFirst(replace) ==
    replace \o << <<(<<"/">>), (<<"-">>)>>, <<(<<":">>), (<<"-">>)>> >>

\* the replacements of line 65: the two fixed rules, then the mapping's items
ReplaceChain(replace) == << <<(<<"/">>), (<<"-">>)>>, <<(<<":">>), (<<"-">>)>> >> \o replace

\* the loop of lines 65-66
RECURSIVE ReplaceLoop(_, _)
ReplaceLoop(path_str0, chain) ==
    IF chain = <<>> THEN path_str0
    ELSE ReplaceLoop(StrReplace(path_str0, Head(chain)[1], Head(chain)[2]), Tail(chain))

\* the joined string of lines 58-63, before it is case-folded
PathParts(clip, date, epoch, title) ==
    << strftime(DatetimeAdd(date, epoch), <<" ">>, <<":">>),
       <<"T", "+">> \o timedelta_to_path_str(clip.start - epoch),
       title,
       clip.title \o <<".", "m", "k", "v">> >>

path_str(clip, date, epoch, title, replace) ==
    ReplaceLoop(casefold(Join(<<" ", "-", " ">>, PathParts(clip, date, epoch, title))),
                ReplaceChain(replace))

----------------------------------------------------------------------------
(* mvcs/job.py: Video and Job. *)

\* a video record and a job document
VideoDict(date, title, clips, epoch) ==
    [t |-> "dict", date |-> date, title |-> title, clips |-> clips, epoch |-> epoch]

JobDict(output_dir, video_dir, videos) ==
    [t |-> "dict", output_dir |-> output_dir, video_dir |-> video_dir, videos |-> videos]

Video(date, title, clips, epoch) ==
    [kind |-> "Video", date |-> date, title |-> title, clips |-> clips, epoch |-> epoch]

Job(output_dir, video_dir, videos) ==
    [kind |-> "Job", output_dir |-> output_dir, video_dir |-> video_dir, videos |-> videos]

\* validate_fn of "clips": a list whose entries are all dicts
ClipsValid(value) ==
    value.t = "list" /\ \A i \in 1..Len(value.xs) : value.xs[i].t = "dict"

\* value_fn of "clips"
ClipsOf(xs) == Comprehension([i \in 1..Len(xs) |-> Clip_from_dict(xs[i])], {"Clip"})

\* the "epoch" round of the loop of lines 114-131, and line 133
VideoWithEpoch(date, title, clips, epoch) ==
    IF epoch.kind # "timedelta" THEN epoch
    ELSE Video(date, title, clips.xs, epoch.secs)

\* the "clips" round of the loop, once its value_fn has run
VideoWithClips(d, date, clips) ==
    IF clips.kind # "list" THEN clips
    ELSE VideoWithEpoch(date, PyStr(d.title), clips,
                        IF d.epoch.t = "absent" THEN [kind |-> "timedelta", secs |-> 0]
                        ELSE timedelta_from_str(PyStr(d.epoch)))

\* lines 108-131, once the date is parsed
VideoWithDate(d, date) ==
    IF date.kind # "datetime" THEN date
    ELSE IF d.title.t = "absent" THEN Error("bad video data")   \* KeyError
    ELSE IF d.clips.t # "absent" /\ ~ClipsValid(d.clips) THEN Error("bad video data: clips")
    ELSE VideoWithClips(d, date, IF d.clips.t = "absent" THEN [kind |-> "list", xs |-> <<>>]
                                 ELSE ClipsOf(d.clips.xs))

Video_from_dict(d) ==
    IF d.date.t = "absent" THEN Error("bad video data")         \* KeyError
    ELSE VideoWithDate(d, datetime_from_str(PyStr(d.date)))

\* data.get(key, "."), as str
DirOf(value) == IF value.t = "absent" THEN <<".">> ELSE PyStr(value)

\* lines 178-182, for the list of what Video.from_dict gave
JobOfVideos(d, built) ==
    IF built.kind # "list" THEN built
    ELSE Job(DirOf(d.output_dir), DirOf(d.video_dir), built.xs)

JobOfListLazy(d, videos) ==
    JobOfVideos(d, Comprehension([i \in 1..Len(videos) |->
                                     IF videos[i].t # "dict" THEN Error("invalid video entry")
                                     ELSE Video_from_dict(videos[i])],
                                 {"Video"}))

\* lines 174-182, for the list videos of line 170
JobOfList(d, videos) ==
    IF \E i \in 1..Len(videos) : videos[i].t # "dict"
    THEN Error("invalid video entry")
    ELSE JobOfVideos(d, Comprehension([i \in 1..Len(videos) |-> Video_from_dict(videos[i])],
                                      {"Video"}))

Job_from_dict(d) ==
    IF d.videos.t \notin {"absent", "list"} THEN Error("invalid videos")
    ELSE JobOfList(d, IF d.videos.t = "absent" THEN <<>> ELSE d.videos.xs)

\* src_dir / name, for a directory written without a trailing separator:
\* an absolute name stands alone, and "." adds nothing
PathJoin(dir, name) ==
    IF StartsWith(name, <<"/">>) \/ dir = <<".">> THEN name
    ELSE dir \o <<"/">> \o name

\* the source video's name: lines 138-140 of Video.write_clips
src_name(video, replace) ==
    ReplaceLoop(strftime(video.date, <<" ">>, <<"-">>) \o <<".", "m", "k", "v">>, replace)

SrcPathWithoutDir(video, replace, src_dir) == src_name(video, replace)

\* the source video's path: line 142
src_path(video, replace, src_dir) == PathJoin(src_dir, src_name(video, replace))

\* the ffmpeg command with the end of the clip where its duration belongs
FfmpegCmdUntilEnd(clip, src, dst) ==
    [ss |-> clip.start, i |-> src, t |-> clip.end, out |-> dst]

\* the ffmpeg command of Clip.write: its -ss, -i, -t and output arguments
ffmpeg_cmd(clip, src, dst) ==
    [ss |-> clip.start, i |-> src, t |-> clip.end - clip.start, out |-> dst]

\* the destination of a clip: lines 147-152
dst_path(video, clip, replace, dst_dir) ==
    PathJoin(dst_dir, path_str(clip, video.date, video.epoch, video.title, replace))

----------------------------------------------------------------------------
(* Clip.from_dict on its own: the record is drawn from the strings over    *)
(* TimeAlphabet and the records of tests/test_job.py.                       *)

TimeAlphabet == {"0", "1", "2", "-", ":", " "}

\* the time strings of test_clip_from_dict and test_clip_from_dict_invalid,
\* and one whose end is more seconds than a timedelta holds
TestTimes == {
    <<"0", " ", "-", " ", "9", "9", "9", "9", "9", "9", "9", "9", "9", "9", "9", "9", "9", "9", "9">>,
    <<"0", " ", "-", " ", "1", "0">>,
    <<"1", "0", "0", " ", "-", " ", "2", ":", "0", "0">>,
    <<"0", "-", "1", "0">>,
    <<" ", " ", "0", " ", " ", " ", " ", "-", " ", " ", " ", "1", "0", " ">>,
    <<"6", "0", " ", "-", " ", "1", ":", "0", "0">>,
    <<"1", " ", "-", " ", "0">>,
    <<"-", "1", " ", "-", " ", "0">>,
    <<"1", "0">>,
    <<"-", " ", "1", "0">>,
    <<"1", "0", " ", "-">>,
    <<"1", "-", "-", "2">> }

TimeValues ==
    {Absent, None} \cup {Str(s) : s \in Strings(TimeAlphabet, MaxTimeLen) \cup TestTimes}

ClipTitleValues ==
    {Absent, None, Str(<<>>), Str(<<" ">>), Str(<<"t">>), Str(<<" ", "a", " ", "B", " ">>)}

ClipRecords == {ClipDict(time, title) : time \in TimeValues, title \in ClipTitleValues}

ArgvIdle ==
    /\ opts = <<>> /\ prefs = "none" /\ objects = Idle /\ parsed = NotCalled /\ ncalls = 0

DatetimeIdle == dtIn = Idle /\ dtOut = NotCalled

TimeIdle ==
    /\ tdIn = Idle /\ td = NotCalled
    /\ tdStr = NotCalled /\ tdPathStr = NotCalled /\ tdBack = NotCalled

JobIdle ==
    /\ doc = Idle /\ config = Idle /\ pc = "idle" /\ job = Idle
    /\ vi = 0 /\ ci = 0 /\ trace = <<>> /\ err = Idle

InitClip ==
    /\ data \in ClipRecords
    /\ clipResult = NotCalled
    /\ call = Idle /\ path = NotCalled /\ between = FALSE /\ again = NotCalled
    /\ JobIdle /\ TimeIdle /\ ArgvIdle /\ DatetimeIdle

ClipFromDict ==
    /\ clipResult = NotCalled
    /\ clipResult' = Clip_from_dict(data)
    /\ UNCHANGED <<data, pathVars, jobVars, timeVars, argvVars, dtVars>>

NextClip == ClipFromDict

SpecClip == InitClip /\ [][NextClip]_vars

\* the durations of a record's time, when it has two halves that both parse
DurationsOf(d) ==
    IF d.time.t = "absent" THEN <<>>
    ELSE TimesOf(Split(PyStr(d.time), <<"-">>, 1))

HasTwoDurations(d) ==
    /\ Len(DurationsOf(d)) = 2
    /\ \A i \in 1..2 : DurationsOf(d)[i].kind = "timedelta"

DurationOf(d, i) == DurationsOf(d)[i].secs

\* C1: every Clip that Clip.from_dict returns has end > start, and a record
\* whose two parsed durations have end <= start (equal or inverted) raises
\* Error and gives no Clip.
C1_EndAfterStart ==
    clipResult # NotCalled =>
        /\ clipResult.kind = "Clip" => clipResult.end > clipResult.start
        /\ (HasTwoDurations(data) /\ DurationOf(data, 2) <= DurationOf(data, 1))
               => clipResult.kind = "Error"

\* "60 - 1:00" (zero length) has been refused
C1_Witness ==
    /\ data = ClipDict(Str(<<"6", "0", " ", "-", " ", "1", ":", "0", "0">>), Str(<<"t">>))
    /\ clipResult = Error("bad clip start/end")

----------------------------------------------------------------------------
(* Clip.path_str on its own: the clip, the video's date, epoch and title   *)
(* and the configuration are drawn from the cases of tests/test_job.py and *)
(* from the titles over TitleAlphabet.                                     *)

TitleAlphabet == {"a", "B", "/", ":"}

\* the video titles of test_clip_path_str
TestTitles == {
    <<"t", "e", "s", "t">>,
    <<"N", "O", "T", "/", "V", "E", "R", "Y", "|", "G", "O", "O", "D", "<", "A", "T", ">", "\\", "A", "L", "L", ":", "*", "\"", "H", "E", "R", "E", "?">> }

TitleValues == Strings(TitleAlphabet, MaxTitleLen) \cup TestTitles

\* clip, date and epoch: the cases of test_clip_path_str, and a clip that
\* starts after an hour in a video that begins at the end of a leap day
PathCases == {
    [clip |-> Clip(2, 1, <<"t", "i", "t", "l", "e">>),
     date |-> datetime(1970, 1, 1, 0, 0, 0), epoch |-> 0],
    [clip |-> Clip(2, 1, <<"t", "i", "t", "l", "e">>),
     date |-> datetime(1970, 1, 1, 0, 0, 0), epoch |-> 1],
    [clip |-> Clip(2, 1, <<"t", "i", "t", "l", "e">>),
     date |-> datetime(1970, 1, 1, 0, 0, 0), epoch |-> 0 - 1],
    [clip |-> Clip(2, 1, <<"t", "i", "t", "l", "e">>),
     date |-> datetime(1970, 1, 1, 0, 0, 0), epoch |-> 3],
    [clip |-> Clip(1, 0, <<"T", "H", "I", "S", "?", " ", "i", "s", "/", "b", "a", "d">>),
     date |-> datetime(1970, 1, 1, 0, 0, 0), epoch |-> 0],
    [clip |-> Clip(3725, 3661, <<"c", ".", "D">>),
     date |-> datetime(2020, 2, 29, 23, 59, 59), epoch |-> 1] }

\* entries of a replacement mapping: (old, new)
ReplaceEntries == {
    <<(<<" ">>), (<<"_">>)>>,
    <<(<<"-">>), (<<"+">>)>>,
    <<(<<"a">>), (<<"B">>)>>,
    <<(<<"B">>), (<<"c">>)>> }

\* a dict has each key once
DistinctKeys(replace) ==
    \A i, j \in 1..Len(replace) : replace[i][1] = replace[j][1] => i = j

RECURSIVE ReplacesOfLen(_)
ReplacesOfLen(n) ==
    IF n = 0 THEN {<<>>}
    ELSE {r \in {Append(m, e) : m \in ReplacesOfLen(n - 1), e \in ReplaceEntries} :
             DistinctKeys(r)}

\* the mappings of at most MaxReplaceLen entries; the empty one is DefaultReplace
Replaces == UNION {ReplacesOfLen(n) : n \in 0..MaxReplaceLen}

\* the mapping of the configuration of test_clip_path_str that asks for mp4
TestReplace == << <<(<<" ">>), (<<"_">>)>> >>

\* the output extension a configuration asks for: mkv, or mp4 as in
\* test_clip_path_str
OutputExts(replace) ==
    IF replace \in {DefaultReplace, TestReplace}
    THEN {<<"m", "k", "v">>, <<"m", "p", "4">>}
    ELSE {<<"m", "k", "v">>}

InitPath ==
    /\ \E case \in PathCases, title \in TitleValues, replace \in Replaces :
          \E ext \in OutputExts(replace) :
             call = [clip |-> case.clip, date |-> case.date, epoch |-> case.epoch,
                     title |-> title, config |-> [filename_replace |-> replace],
                     output_ext |-> ext]
    /\ path = NotCalled /\ between = FALSE /\ again = NotCalled
    /\ data = Idle /\ clipResult = NotCalled
    /\ JobIdle /\ TimeIdle /\ ArgvIdle /\ DatetimeIdle

\* path = clip.path_str(date, epoch, title, replace=config.filename_replace);
\* there is no parameter through which output_ext could reach it
PathStr ==
    /\ path = NotCalled
    /\ path' = Str(path_str(call.clip, call.date, call.epoch, call.title,
                            call.config.filename_replace))
    /\ call' = [call EXCEPT !.config.filename_replace = ItemsRead(@)]
    /\ UNCHANGED <<between, again, clipVars, jobVars, timeVars, argvVars, dtVars>>

\* a call for the same clip under the same mapping with another video title,
\* between the first call and the second
PathStrBetween ==
    /\ path # NotCalled /\ again = NotCalled /\ ~between
    /\ \E other \in {path_str(call.clip, call.date, call.epoch, <<"o">>,
                               call.config.filename_replace)} :
           between' = TRUE
    /\ call' = [call EXCEPT !.config.filename_replace = ItemsRead(@)]
    /\ UNCHANGED <<path, again, clipVars, jobVars, timeVars, argvVars, dtVars>>

\* again = clip.path_str(date, epoch, title, replace=config.filename_replace),
\* a second time with the arguments of the first call
PathStrAgain ==
    /\ path # NotCalled /\ again = NotCalled
    /\ again' = Str(path_str(call.clip, call.date, call.epoch, call.title,
                             call.config.filename_replace))
    /\ call' = [call EXCEPT !.config.filename_replace = ItemsRead(@)]
    /\ UNCHANGED <<path, between, clipVars, jobVars, timeVars, argvVars, dtVars>>

NextPath == PathStr

SpecPath == InitPath /\ [][NextPath]_vars

(* Properties of Clip.path_str. *)

\* the chain of replacements taken from its last entry back: the last one
\* works on the result of all the earlier ones
RECURSIVE AppliedInOrder(_, _)
AppliedInOrder(s, chain) ==
    IF chain = <<>> THEN s
    ELSE StrReplace(AppliedInOrder(s, SubSeq(chain, 1, Len(chain) - 1)),
                    chain[Len(chain)][1], chain[Len(chain)][2])

FixedRules == << <<(<<"/">>), (<<"-">>)>>, <<(<<":">>), (<<"-">>)>> >>

\* no key of the mapping holds a character of set
KeysAvoid(replace, set) ==
    \A i \in 1..Len(replace) : \A k \in 1..Len(replace[i][1]) : replace[i][1][k] \notin set

\* the characters of the filename's timestamp and offset
PrefixChars == Digits \cup {"-", " ", "t", "+", "h", "m", "s"}

\* "<H>h<MM>m<SS>s" for a number of seconds >= 0
RenderOffset(seconds) ==
    NatStr(seconds \div 3600) \o <<"h">> \o Pad2((seconds \div 60) % 60) \o <<"m">>
        \o Pad2(seconds % 60) \o <<"s">>

ExpectedPrefix(c) ==
    strftime(DatetimeAdd(c.date, c.epoch), <<" ">>, <<"-">>)
        \o <<" ", "-", " ", "t", "+">>
        \o RenderOffset(IF c.clip.start - c.epoch < 0 THEN 0 ELSE c.clip.start - c.epoch)

\* C6: the filename starts with date + epoch as 'YYYY-MM-DD HH-MM-SS', then
\* ' - t+' and the rendering of max(0, clip.start - epoch), whatever the sign of
\* the epoch (for the default mapping and any mapping that rewrites no
\* character of that prefix).
C6_Prefix ==
    (path # NotCalled /\ KeysAvoid(call.config.filename_replace, PrefixChars))
        => /\ StartsWith(path.s, ExpectedPrefix(call))
           \* 1970-01-01 00:00:00 with an epoch of -1 s, the clip starting at 1 s
           /\ (call.date = datetime(1970, 1, 1, 0, 0, 0) /\ call.epoch = 0 - 1
                  /\ call.clip.start = 1)
                 => StartsWith(path.s, <<"1", "9", "6", "9", "-", "1", "2", "-", "3", "1", " ", "2", "3", "-", "5", "9",
                       "-", "5", "9", " ", "-", " ", "t", "+", "0", "h", "0", "0", "m", "0", "2", "s",
                       " ", "-", " ">>)

\* the clip that starts at 1 s with an epoch of 3 s: t+0h00m00s, the timestamp at 00-00-03
C6_Witness ==
    /\ call.clip.start = 1 /\ call.epoch = 3
    /\ call.config.filename_replace = DefaultReplace
    /\ path # NotCalled
    /\ StartsWith(path.s, <<"1", "9", "7", "0", "-", "0", "1", "-", "0", "1", " ", "0", "0", "-", "0", "0",
          "-", "0", "3", " ", "-", " ", "t", "+", "0", "h", "0", "0", "m", "0", "0", "s",
          " ", "-", " ">>)

\* the last entry of the mapping, when it has one
LastEntry(replace) == replace[Len(replace)]

\* C7: the filename is the case-folded joined string with '/' replaced, then
\* ':', then each entry of the mapping in its order, each on the result of all
\* earlier replacements; so no occurrence of the last entry's one-character key
\* survives, whether it came from the titles, from a fixed rule or from an
\* earlier entry.
C7_Order ==
    path # NotCalled =>
        /\ path.s = AppliedInOrder(
               casefold(Join(<<" ", "-", " ">>,
                             PathParts(call.clip, call.date, call.epoch, call.title))),
               FixedRules \o call.config.filename_replace)
        /\ (/\ call.config.filename_replace # <<>>
            /\ Len(LastEntry(call.config.filename_replace)[1]) = 1
            /\ ~Contains(LastEntry(call.config.filename_replace)[2],
                         LastEntry(call.config.filename_replace)[1]))
               => ~Contains(path.s, LastEntry(call.config.filename_replace)[1])

\* "a/" under {"a": "B", "B": "c"}: the second entry rewrites what the first wrote
C7_Witness ==
    /\ call.title = <<"a", "/">>
    /\ call.config.filename_replace = << <<(<<"a">>), (<<"B">>)>>, <<(<<"B">>), (<<"c">>)>> >>
    /\ call.clip.title = <<"t", "i", "t", "l", "e">>
    /\ path # NotCalled
    /\ EndsWith(path.s, <<" ", "-", " ", "c", "-", " ", "-", " ", "t", "i", "t", "l", "e", ".", "m", "k",
          "v">>)

UpperCase == {"A", "B", "C", "D", "E", "F", "G", "H", "I", "J", "K", "L", "M",
              "N", "O", "P", "Q", "R", "S", "T", "U", "V", "W", "X", "Y", "Z"}

\* a string of these alphabets equals its own case-folded form when it holds
\* no upper-case letter
IsFolded(s) == \A i \in 1..Len(s) : s[i] \notin UpperCase

ValuesFolded(replace) == \A i \in 1..Len(replace) : IsFolded(replace[i][2])

Problematic == {"/", "\\", ":", "*", "?", "\"", "<", ">", "|"}

\* C9: with the default configuration the filename holds none of the
\* characters / \ : * ? " < > |.
C9_NoProblematicByDefault ==
    (path # NotCalled /\ call.config.filename_replace = DefaultReplace)
        => \A i \in 1..Len(path.s) : path.s[i] \notin Problematic

\* C10: the filename ends with the clip title, '.' and the output extension
\* the configuration asks for (the title and the extension as the replacements
\* leave them).
C10_ConfiguredExtension ==
    path # NotCalled =>
        EndsWith(path.s,
                 AppliedInOrder(casefold(call.clip.title \o <<".">> \o call.output_ext),
                                FixedRules \o call.config.filename_replace))

----------------------------------------------------------------------------
(* main: Job.from_yaml_file, then Job.run.  The run is followed from one   *)
(* effect to the next: a source file check, the start of an ffmpeg         *)
(* process, its return.                                                    *)

CurrentVideoReversed == job.videos[Len(job.videos) + 1 - vi]

CurrentVideo == job.videos[vi]

\* job = Job.from_dict(document)
FromDict ==
    /\ pc = "load"
    /\ \E built \in {Job_from_dict(doc)} :
           IF built.kind = "Job"
           THEN /\ job' = built
                /\ pc' = "run"
                /\ vi' = 1
                /\ err' = err
           ELSE /\ err' = built
                /\ pc' = "exit"
                /\ UNCHANGED <<job, vi>>
    /\ UNCHANGED <<doc, config, ci, trace, clipVars, pathVars, timeVars, argvVars, dtVars>>

\* the source file looked for only when the video has a clip to trim
CheckSourceUnlessEmpty ==
    /\ pc = "run"
    /\ vi <= Len(job.videos)
    /\ IF CurrentVideo.clips = <<>>
       THEN /\ pc' = "clips"
            /\ ci' = 1
            /\ UNCHANGED <<trace, err>>
       ELSE \E found \in BOOLEAN,
               src \in {src_path(CurrentVideo, config.filename_replace, job.video_dir)} :
                 /\ trace' = Append(trace, [op |-> "is_file", v |-> vi, path |-> src,
                                            found |-> found])
                 /\ IF found
                    THEN /\ pc' = "clips"
                         /\ ci' = 1
                         /\ err' = err
                    ELSE /\ pc' = "exit"
                         /\ err' = ErrorAbout("missing video file", src)
                         /\ ci' = ci
    /\ UNCHANGED <<doc, config, job, vi, clipVars, pathVars, timeVars, argvVars, dtVars>>

\* Video.write_clips, lines 138-144: the source file is looked for; found is
\* what src.is_file() answers at that moment
CheckSource ==
    /\ pc = "run"
    /\ vi <= Len(job.videos)
    /\ \E found \in BOOLEAN,
          src \in {src_path(CurrentVideo, config.filename_replace, job.video_dir)} :
            /\ trace' = Append(trace, [op |-> "is_file", v |-> vi, path |-> src,
                                       found |-> found])
            /\ IF found
               THEN /\ pc' = "clips"
                    /\ ci' = 1
                    /\ err' = err
               ELSE /\ pc' = "exit"
                    /\ err' = ErrorAbout("missing video file", src)
                    /\ ci' = ci
    /\ UNCHANGED <<doc, config, job, vi, clipVars, pathVars, timeVars, argvVars, dtVars>>

\* Clip.write, lines 73-85: subprocess.run starts ffmpeg and waits for it
StartTrim ==
    /\ pc = "clips"
    /\ ci <= Len(CurrentVideo.clips)
    /\ trace' = Append(trace,
          [op |-> "ffmpeg", v |-> vi, c |-> ci,
           cmd |-> ffmpeg_cmd(CurrentVideo.clips[ci],
                              src_path(CurrentVideo, config.filename_replace, job.video_dir),
                              dst_path(CurrentVideo, CurrentVideo.clips[ci],
                                       config.filename_replace, job.output_dir))])
    /\ pc' = "ffmpeg"
    /\ UNCHANGED <<doc, config, job, vi, ci, err, clipVars, pathVars, timeVars, argvVars, dtVars>>

\* ffmpeg exits with status 0: the loop of line 146 goes on
TrimReturns ==
    /\ pc = "ffmpeg"
    /\ trace' = Append(trace, [op |-> "returned", v |-> vi, c |-> ci])
    /\ ci' = ci + 1
    /\ pc' = "clips"
    /\ UNCHANGED <<doc, config, job, vi, err, clipVars, pathVars, timeVars, argvVars, dtVars>>

TrimFailsIgnored ==
    /\ pc = "ffmpeg"
    /\ \E raised \in {ErrorAbout("ffmpeg failed", <<vi, ci>>), [kind |-> "OSError"]} :
          err' = raised
    /\ trace' = Append(trace, [op |-> "failed", v |-> vi, c |-> ci])
    /\ ci' = ci + 1
    /\ pc' = "clips"
    /\ UNCHANGED <<doc, config, job, vi, clipVars, pathVars, timeVars, argvVars, dtVars>>

\* ffmpeg exits with another status (CalledProcessError, raised as Error,
\* lines 86-87) or cannot be started (OSError, not caught)
TrimFails ==
    /\ pc = "ffmpeg"
    /\ \E raised \in {ErrorAbout("ffmpeg failed", <<vi, ci>>), [kind |-> "OSError"]} :
          err' = raised
    /\ trace' = Append(trace, [op |-> "failed", v |-> vi, c |-> ci])
    /\ pc' = "exit"
    /\ UNCHANGED <<doc, config, job, vi, ci, clipVars, pathVars, timeVars, argvVars, dtVars>>

\* the loop of line 146 is over: Job.run goes to the next video
NextVideo ==
    /\ pc = "clips"
    /\ ci > Len(CurrentVideo.clips)
    /\ vi' = vi + 1
    /\ pc' = "run"
    /\ UNCHANGED <<doc, config, job, ci, trace, err, clipVars, pathVars, timeVars, argvVars, dtVars>>

\* the loop of line 194 is over: Job.run returns
RunReturns ==
    /\ pc = "run"
    /\ vi > Len(job.videos)
    /\ pc' = "done"
    /\ UNCHANGED <<doc, config, job, vi, ci, trace, err, clipVars, pathVars, timeVars, argvVars, dtVars>>

NextJob ==
    \/ FromDict
    \/ CheckSource
    \/ StartTrim
    \/ TrimReturns
    \/ TrimFails
    \/ NextVideo
    \/ RunReturns

(* The job documents: at most MaxVideos videos with at most MaxClips clip  *)
(* entries in all.  The i-th video is dated the i-th of January 1970.      *)

DateOf(i) ==
    <<"1", "9", "7", "0", "-", "0", "1", "-", "0", DigitChar(i),
      "T", "0", "0", ":", "0", "0", ":", "0", "0">>

\* a clip record whose time does not parse, and a date that is none
BadClipEntry == ClipDict(Str(<<"1", "-", "x">>), Str(<<"c">>))

BadDate == <<"1", "9", "7", "0">>

ClipEntries == {
    ClipDict(Str(<<"0", "-", "1">>), Str(<<"a">>)),
    ClipDict(Str(<<"1", ":", "0", "0", " ", "-", " ", "2", ":", "0", "0">>), Str(<<"B", "/", "b">>)),
    BadClipEntry }

\* the clips values with at most n entries
ClipsValues(n) ==
    {Absent, Str(<<>>)} \cup UNION {{List(xs) : xs \in [1..k -> ClipEntries]} : k \in 0..n}

\* what a video record is made of: a well-formed head with a clips value, or,
\* without clips, a head with no title or with a bad date
VideoShapes ==
    {[head |-> "ok", clips |-> clips] : clips \in ClipsValues(MaxClips)}
    \cup {[head |-> "no title", clips |-> Absent], [head |-> "bad date", clips |-> Absent]}

\* the i-th video record of a document
VideoOf(i, shape) ==
    VideoDict(IF shape.head = "bad date" THEN Str(BadDate) ELSE Str(DateOf(i)),
              IF shape.head = "no title" THEN Absent ELSE Str(<<"v", DigitChar(i)>>),
              shape.clips, Absent)

\* the clip entries of the first n of shapes
RECURSIVE TotalClips(_, _)
TotalClips(shapes, n) ==
    IF n = 0 THEN 0
    ELSE TotalClips(shapes, n - 1)
             + (IF shapes[n].clips.t = "list" THEN Len(shapes[n].clips.xs) ELSE 0)

\* the lists of n video records with at most MaxClips clip entries in all
VideoLists(n) ==
    {[i \in 1..n |-> VideoOf(i, shapes[i])] :
        shapes \in {f \in [1..n -> VideoShapes] : TotalClips(f, n) <= MaxClips}}

\* the documents of n videos; their video-dir is "in" or left out
Documents(n) ==
    {JobDict(Str(<<"o", "u", "t">>), video_dir, List(vs)) :
        video_dir \in {Absent, Str(<<"i", "n">>)}, vs \in VideoLists(n)}

\* the documents of test_video_from_dict_invalid and test_job_from_dict_invalid:
\* an entry that is no record among the videos or among the clips, alone or
\* after a record that is refused for itself, and a video without a date
EntryDocuments ==
    {JobDict(Str(<<"o", "u", "t">>), Str(<<"i", "n">>), List(vs)) : vs \in {
        <<Str(<<>>)>>,
        <<VideoDict(Str(DateOf(1)), Absent, Absent, Absent), Str(<<>>)>>,
        <<VideoDict(Str(DateOf(1)), Str(<<"v", "1">>), List(<<Str(<<>>)>>), Absent)>>,
        <<VideoDict(Str(DateOf(1)), Str(<<"v", "1">>), List(<<BadClipEntry, Str(<<>>)>>),
                    Absent)>>,
        <<VideoDict(Absent, Str(<<"v", "1">>), Absent, Absent)>> }}

\* documents of one video with an epoch, as the example of mvcs/__main__.py
\* has them: two clips of one title that start at 0:00 and at 0:30, under an
\* epoch after both starts, between them, before both or none at all
EpochDocuments ==
    {JobDict(Str(<<"o", "u", "t">>), Str(<<"i", "n">>),
             List(<<VideoDict(Str(DateOf(1)), Str(<<"v", "1">>),
                              List(<<ClipDict(Str(<<"0", "-", "1", "0">>), Str(<<"a">>)),
                                     ClipDict(Str(<<"3", "0", "-", "4", "0">>), Str(<<"a">>))>>),
                              Str(epoch))>>)) :
        epoch \in {<<"1", ":", "0", "0">>, <<"0", ":", "2", "0">>, <<"-", "0", ":", "0", "5">>,
                   <<"x">>}}

\* Config.default(), and the mapping of test_clip_path_str
Configs == {[filename_replace |-> DefaultReplace],
            [filename_replace |-> << <<(<<" ">>), (<<"_">>)>> >>]}

\* a document whose videos is no list, a document of at most MaxVideos
\* videos, or one of EntryDocuments or EpochDocuments; the default
\* configuration goes with the default video-dir
InitJob ==
    /\ \/ doc = JobDict(Absent, Str(<<"i", "n">>), Str(<<>>))
       \/ \E n \in 0..MaxVideos : doc \in Documents(n)
       \/ doc \in EntryDocuments
       \/ doc \in EpochDocuments
    /\ config \in Configs
    /\ doc.video_dir = Absent <=> config.filename_replace = DefaultReplace
    /\ pc = "load"
    /\ job = Idle /\ vi = 0 /\ ci = 0 /\ trace = <<>> /\ err = Idle
    /\ data = Idle /\ clipResult = NotCalled
    /\ call = Idle /\ path = NotCalled /\ between = FALSE /\ again = NotCalled
    /\ TimeIdle /\ ArgvIdle /\ DatetimeIdle

SpecJob == InitJob /\ [][NextJob]_vars

(* Properties of the run. *)

\* the trim invocations of a trace, and their (video, clip) indexes
Invocations(tr) == SelectSeq(tr, LAMBDA e : e.op = "ffmpeg")

IndexPairs(tr) == [i \in 1..Len(tr) |-> <<tr[i].v, tr[i].c>>]

\* the (video, clip) indexes of the videos from the v-th on, in document order
RECURSIVE ClipsInOrder(_, _)
ClipsInOrder(videos, v) ==
    IF v > Len(videos) THEN <<>>
    ELSE [c \in 1..Len(videos[v].clips) |-> <<v, c>>] \o ClipsInOrder(videos, v + 1)

\* the c-th clip record of the v-th video record of the document
DocClip(v, c) == doc.videos.xs[v].clips.xs[c]

\* C2: when every source file exists and every trim succeeds, the run's trim
\* invocations are one per clip, the videos in document order and each video's
\* clips in document order; and an invocation is always followed by its own
\* return (or failure) before anything else happens.
C2_InOrder ==
    /\ \A i \in 1..(Len(trace) - 1) :
          trace[i].op = "ffmpeg"
              => /\ trace[i + 1].op \in {"returned", "failed"}
                 /\ trace[i + 1].v = trace[i].v
                 /\ trace[i + 1].c = trace[i].c
    /\ pc = "done" =>
          /\ IndexPairs(Invocations(trace)) = ClipsInOrder(job.videos, 1)
          /\ \A i \in 1..Len(Invocations(trace)) :
                \E e \in {Invocations(trace)[i]} :
                   /\ job.videos[e.v].clips[e.c].title = PyStr(DocClip(e.v, e.c).title)
                   /\ e.cmd.ss = job.videos[e.v].clips[e.c].start
                   /\ e.cmd.t = job.videos[e.v].clips[e.c].end - job.videos[e.v].clips[e.c].start

\* two videos: both clips of the first were trimmed, then the clip of the second
C2_Witness ==
    /\ pc = "done"
    /\ IndexPairs(Invocations(trace)) = << <<1, 1>>, <<1, 2>>, <<2, 1>> >>
    /\ job.videos[1].clips[1].title # job.videos[1].clips[2].title

\* C3: a failed trim invocation is the last thing the run does: it ends at
\* once with the error of that invocation.
C3_AbortOnFailure ==
    \A i \in 1..Len(trace) :
        trace[i].op = "failed"
            => /\ i = Len(trace)
               /\ pc = "exit"
               /\ err \in {ErrorAbout("ffmpeg failed", <<trace[i].v, trace[i].c>>),
                           [kind |-> "OSError"]}

\* the first clip of the first video failed; a second clip and a second video are left
C3_Witness ==
    /\ trace # <<>>
    /\ trace[Len(trace)] = [op |-> "failed", v |-> 1, c |-> 1]
    /\ Len(job.videos) = 2
    /\ Len(job.videos[1].clips) = 2
    /\ pc = "exit"

\* the source path of the v-th video, from its date as the document writes it
\* ("YYYY-MM-DDTHH:MM:SS"), the configuration and the document's video-dir
ExpectedSourceName(v) ==
    AppliedInOrder(
        StrReplace(StrReplace(PyStr(doc.videos.xs[v].date), <<"T">>, <<" ">>), <<":">>, <<"-">>)
            \o <<".", "m", "k", "v">>,
        config.filename_replace)

ExpectedSource(v) ==
    IF doc.video_dir.t = "absent" THEN ExpectedSourceName(v)
    ELSE PyStr(doc.video_dir) \o <<"/">> \o ExpectedSourceName(v)

\* C4: when the source file of the video the run has reached is missing, the
\* run ends with an error that names video_dir joined with the video's source
\* filename; its trims are then exactly the clips of the videos before, each
\* one returned, and nothing follows.
C4_MissingSource ==
    \A i \in 1..Len(trace) :
        (trace[i].op = "is_file" /\ ~trace[i].found)
            => /\ i = Len(trace)
               /\ pc = "exit"
               /\ trace[i].path = ExpectedSource(trace[i].v)
               /\ err = ErrorAbout("missing video file", ExpectedSource(trace[i].v))
               /\ IndexPairs(Invocations(trace))
                      = ClipsInOrder(SubSeq(job.videos, 1, trace[i].v - 1), 1)
               /\ \A k \in 1..Len(trace) : trace[k].op # "failed"

\* the second video's file is missing after the clip of the first was trimmed
C4_Witness ==
    /\ pc = "exit"
    /\ doc.video_dir = Str(<<"i", "n">>)
    /\ config.filename_replace = << <<(<<" ">>), (<<"_">>)>> >>
    /\ err = ErrorAbout("missing video file",
                        <<"i", "n", "/", "1", "9", "7", "0", "-", "0", "1", "-", "0", "2", "_", "0", "0", "-", "0", "0", "-", "0", "0", ".", "m", "k", "v">>)
    /\ Len(Invocations(trace)) >= 1
    /\ Len(job.videos[2].clips) >= 1

\* a video record of the document that Video.from_dict must refuse: no title,
\* a date that is none, clips that is no list, or a clip whose time does not parse
MalformedVideo(v) ==
    \/ v.title = Absent
    \/ v.date = Str(BadDate)
    \/ v.clips.t = "str"
    \/ v.clips.t = "list" /\ \E c \in 1..Len(v.clips.xs) : v.clips.xs[c] = BadClipEntry

Malformed(d) ==
    /\ d.videos.t = "list"
    /\ \E v \in 1..Len(d.videos.xs) :
           d.videos.xs[v].t = "dict" /\ MalformedVideo(d.videos.xs[v])

\* C5: a document with a malformed video or clip record anywhere gives an
\* Error and no Job: the program ends without a source file check or a trim
\* invocation.
C5_ValidatedBeforeRun ==
    (pc # "load" /\ Malformed(doc))
        => /\ pc = "exit"
           /\ job = Idle
           /\ err.kind = "Error"
           /\ trace = <<>>

\* the last clip of the last video has a time that does not parse
C5_Witness ==
    /\ pc = "exit"
    /\ doc.videos.t = "list"
    /\ Len(doc.videos.xs) = 2
    /\ ~MalformedVideo(doc.videos.xs[1])
    /\ doc.videos.xs[1].clips.t = "list"
    /\ doc.videos.xs[2].clips = List(<<BadClipEntry>>)
    /\ err = Error("error parsing timedelta")
    /\ trace = <<>>

----------------------------------------------------------------------------
(* mvcs/time.py on its own: a duration is parsed from a string of at most  *)
(* MaxTimeLen characters or from a string of tests/test_time.py, or it is  *)
(* one of the durations of whole seconds up to MaxSeconds either way; it   *)
(* is then serialized, and the serialized form is parsed back.             *)

\* the strings of test_timedelta_from_str and test_timedelta_from_str_invalid
TestDurationStrings == {
    <<"0", "0", ":", "0", "0", ":", "0", "0">>,
    <<"0", "0", ":", "0", "1", ":", "0", "0">>,
    <<"0", "1", ":", "0", "0", ":", "0", "0">>,
    <<"2", "3", ":", "5", "9", ":", "5", "9">>,
    <<"0", "0", ":", "0", "0">>,
    <<"0", "1", ":", "0", "0">>,
    <<"5", "9", ":", "5", "9">>,
    <<"0", "0">>,
    <<"5", "9">>,
    <<"0">>,
    <<"0", ":", "0">>,
    <<"0", ":", "0", ":", "0">>,
    <<"1">>,
    <<"1", ":", "1">>,
    <<"1", ":", "1", ":", "1">>,
    <<"9", "9">>,
    <<"9", "9", "9", ":", "9", "9", ":", "9", "9">>,
    <<"-", "0", "1">>,
    <<"-", "0", "1", ":", "0", "1">>,
    <<"-", "0", "1", ":", "0", "1", ":", "0", "1">>,
    <<>>,
    <<":", "0", "0">>,
    <<":", "0", "0", ":", "0", "0">>,
    <<"0", ".", "5">>,
    <<"0", ".", "5", ":", "0", "0">>,
    <<"0", ".", "5", ":", "0", "0", ":", "0", "0">>,
    <<"0", ":", "-", "1">>,
    <<"0", ":", "-", "1", ":", "0">>,
    <<"0", ":", "0", ":", "0", ":", "0">> }

DurationStrings ==
    Strings({"0", "1", "5", "-", ":", "."}, MaxTimeLen) \cup TestDurationStrings

\* every duration up to MaxSeconds either way and those of
\* test_timedelta_to_path_str, in seconds
Durations ==
    ((0 - MaxSeconds)..MaxSeconds) \cup {0, 1, 59, 60, 3600, 359999, 243, 0 - 86400}

InitTime ==
    /\ \/ /\ tdIn \in {Str(s) : s \in DurationStrings}
          /\ td = NotCalled
       \/ /\ tdIn = Idle
          /\ td \in {[kind |-> "timedelta", secs |-> d] : d \in Durations}
    /\ tdStr = NotCalled /\ tdPathStr = NotCalled /\ tdBack = NotCalled
    /\ data = Idle /\ clipResult = NotCalled
    /\ call = Idle /\ path = NotCalled /\ between = FALSE /\ again = NotCalled
    /\ JobIdle /\ ArgvIdle /\ DatetimeIdle

\* td = timedelta_from_str(tdIn)
TimedeltaFromStr ==
    /\ tdIn # Idle /\ td = NotCalled
    /\ td' = timedelta_from_str(tdIn.s)
    /\ UNCHANGED <<tdIn, tdStr, tdPathStr, tdBack, clipVars, pathVars, jobVars,
                   argvVars, dtVars>>

\* tdStr = timedelta_to_str(td)
TimedeltaToStr ==
    /\ td.kind = "timedelta" /\ tdStr = NotCalled
    /\ tdStr' = Str(timedelta_to_str(td.secs))
    /\ UNCHANGED <<tdIn, td, tdPathStr, tdBack, clipVars, pathVars, jobVars,
                   argvVars, dtVars>>

\* tdPathStr = timedelta_to_path_str(td)
TimedeltaToPathStr ==
    /\ td.kind = "timedelta" /\ tdPathStr = NotCalled
    /\ tdPathStr' = Str(timedelta_to_path_str(td.secs))
    /\ UNCHANGED <<tdIn, td, tdStr, tdBack, clipVars, pathVars, jobVars,
                   argvVars, dtVars>>

\* tdBack = timedelta_from_str(tdStr)
ParseBack ==
    /\ tdStr # NotCalled /\ tdBack = NotCalled
    /\ tdBack' = timedelta_from_str(tdStr.s)
    /\ UNCHANGED <<tdIn, td, tdStr, tdPathStr, clipVars, pathVars, jobVars,
                   argvVars, dtVars>>

NextTime ==
    \/ TimedeltaFromStr
    \/ TimedeltaToStr
    \/ TimedeltaToPathStr
    \/ ParseBack

SpecTime == InitTime /\ [][NextTime]_vars

(* Properties of the duration functions. *)

\* the number that a string of decimal digits writes
RECURSIVE Decimal(_)
Decimal(s) ==
    IF s = <<>> THEN 0
    ELSE 10 * Decimal(SubSeq(s, 1, Len(s) - 1)) + DigitVal(s[Len(s)])

IsDigits(s) == \A i \in 1..Len(s) : s[i] \in Digits

\* s is <h>h<mm>m<ss>s for k digits of hours without padding, mm and ss of
\* two digits below 60, and the three add up to secs
IsPathDurationAt(s, k, secs) ==
    /\ Len(s) = k + 7
    /\ IsDigits(SubSeq(s, 1, k)) /\ (k = 1 \/ s[1] # "0")
    /\ s[k + 1] = "h" /\ s[k + 4] = "m" /\ s[k + 7] = "s"
    /\ IsDigits(SubSeq(s, k + 2, k + 3)) /\ IsDigits(SubSeq(s, k + 5, k + 6))
    /\ Decimal(SubSeq(s, k + 2, k + 3)) < 60
    /\ Decimal(SubSeq(s, k + 5, k + 6)) < 60
    /\ Decimal(SubSeq(s, 1, k)) * 3600 + Decimal(SubSeq(s, k + 2, k + 3)) * 60
           + Decimal(SubSeq(s, k + 5, k + 6)) = secs

IsPathDuration(s, secs) == \E k \in 1..(Len(s) - 7) : IsPathDurationAt(s, k, secs)

\* C11: timedelta_to_path_str of a duration of d whole seconds is
\* <h>h<mm>m<ss>s, h unpadded, mm and ss two digits in 00..59, adding up to
\* max(d, 0) seconds; a negative duration renders as 0h00m00s, as zero does.
C11_PathDuration ==
    tdPathStr # NotCalled =>
        /\ IsPathDuration(tdPathStr.s, IF td.secs > 0 THEN td.secs ELSE 0)
        /\ td.secs <= 0 => tdPathStr = Str(<<"0", "h", "0", "0", "m", "0", "0", "s">>)

\* minus one day has been rendered as 0h00m00s
C11_Witness ==
    /\ td = [kind |-> "timedelta", secs |-> 0 - 86400]
    /\ tdPathStr = Str(<<"0", "h", "0", "0", "m", "0", "0", "s">>)

\* digits that write a number without padding
IsUnpadded(s) == s # <<>> /\ IsDigits(s) /\ (Len(s) = 1 \/ s[1] # "0")

\* body is H:MM:SS for k digits of hours
IsHoursFormAt(body, k, secs) ==
    /\ Len(body) = k + 6
    /\ IsUnpadded(SubSeq(body, 1, k)) /\ Decimal(SubSeq(body, 1, k)) > 0
    /\ body[k + 1] = ":" /\ body[k + 4] = ":"
    /\ IsDigits(SubSeq(body, k + 2, k + 3)) /\ IsDigits(SubSeq(body, k + 5, k + 6))
    /\ Decimal(SubSeq(body, k + 2, k + 3)) < 60
    /\ Decimal(SubSeq(body, k + 5, k + 6)) < 60
    /\ Decimal(SubSeq(body, 1, k)) * 3600 + Decimal(SubSeq(body, k + 2, k + 3)) * 60
           + Decimal(SubSeq(body, k + 5, k + 6)) = secs

\* body is M:SS for k digits of minutes
IsMinutesFormAt(body, k, secs) ==
    /\ Len(body) = k + 3
    /\ IsUnpadded(SubSeq(body, 1, k))
    /\ Decimal(SubSeq(body, 1, k)) \in 1..59
    /\ body[k + 1] = ":"
    /\ IsDigits(SubSeq(body, k + 2, k + 3))
    /\ Decimal(SubSeq(body, k + 2, k + 3)) < 60
    /\ Decimal(SubSeq(body, 1, k)) * 60 + Decimal(SubSeq(body, k + 2, k + 3)) = secs

\* body is the display form of secs >= 0: H:MM:SS from one hour on, M:SS from
\* one minute on, S below
IsDisplayBody(body, secs) ==
    IF secs >= 3600 THEN \E k \in 1..(Len(body) - 6) : IsHoursFormAt(body, k, secs)
    ELSE IF secs >= 60 THEN \E k \in 1..2 : IsMinutesFormAt(body, k, secs)
    ELSE IsUnpadded(body) /\ Decimal(body) = secs

\* s is the display form of secs, with "-" in front exactly when secs < 0
IsDisplay(s, secs) ==
    IF secs < 0 THEN s # <<>> /\ s[1] = "-" /\ IsDisplayBody(Tail(s), 0 - secs)
    ELSE IsDisplayBody(s, secs)

\* C12: the display form of a parsed duration is [-]H:MM:SS when the hours
\* are nonzero, else [-]M:SS when the minutes are nonzero, else [-]S, zero
\* being "0"; timedelta_from_str accepts it and gives the same duration back.
C12_RoundTrip ==
    /\ tdStr # NotCalled =>
           /\ IsDisplay(tdStr.s, td.secs)
           /\ td.secs = 0 => tdStr = Str(<<"0">>)
    /\ tdBack # NotCalled => tdBack = td

\* "-01:01:01" has been parsed, shown as "-1:01:01" and parsed back
C12_Witness ==
    /\ tdIn = Str(<<"-", "0", "1", ":", "0", "1", ":", "0", "1">>)
    /\ tdStr = Str(<<"-", "1", ":", "0", "1", ":", "0", "1">>)
    /\ tdBack = [kind |-> "timedelta", secs |-> 0 - 3661]

\* the colon-separated fields are one to three groups of digits
IsFields(fields) ==
    /\ Len(fields) \in 1..3
    /\ \A i \in 1..Len(fields) : fields[i] # <<>> /\ IsDigits(fields[i])

\* [-]H:M:S, [-]M:S or [-]S
IsDurationForm(s) ==
    IsFields(Split(IF s # <<>> /\ s[1] = "-" THEN Tail(s) ELSE s, <<":">>, 3))

\* seconds, minutes and hours counted from the right, an absent one being 0
FieldFromRight(fields, x) ==
    IF Len(fields) > x THEN Decimal(fields[Len(fields) - x]) ELSE 0

SecondsOfFields(fields) ==
    FieldFromRight(fields, 2) * 3600 + FieldFromRight(fields, 1) * 60
        + FieldFromRight(fields, 0)

SecondsOfForm(s) ==
    IF s[1] = "-" THEN 0 - SecondsOfFields(Split(Tail(s), <<":">>, 3))
    ELSE SecondsOfFields(Split(s, <<":">>, 3))

\* C13: for a string [-]H:M:S, [-]M:S or [-]S, timedelta_from_str returns
\* sign * (H * 3600 + M * 60 + S) seconds, the components read from the right,
\* an absent one counting as 0, none of them clamped to 0..59 and padded or
\* not.
C13_SecondsOfComponents ==
    (tdIn # Idle /\ td # NotCalled /\ IsDurationForm(tdIn.s))
        => td = [kind |-> "timedelta", secs |-> SecondsOfForm(tdIn.s)]

\* "999:99:99" has been parsed: 41 days, 16 hours, 40 minutes and 39 seconds
C13_Witness ==
    /\ tdIn = Str(<<"9", "9", "9", ":", "9", "9", ":", "9", "9">>)
    /\ td = [kind |-> "timedelta", secs |-> 41 * 86400 + 16 * 3600 + 40 * 60 + 39]

\* "-" occurs somewhere other than as the very first character
HasStrayMinus(s) == \E i \in 2..Len(s) : s[i] = "-"

\* the colon-separated components of s, its leading sign aside
ComponentsOf(s) ==
    Split(IF s # <<>> /\ s[1] = "-" THEN Tail(s) ELSE s, <<":">>, Len(s))

HasEmptyComponent(s) == \E i \in 1..Len(ComponentsOf(s)) : ComponentsOf(s)[i] = <<>>

\* C14: timedelta_from_str raises Error for every string in which "-" occurs
\* anywhere other than as the single very first character, and for every
\* string with an empty component, a fractional component or more than
\* three components.
C14_StrayMinusRejected ==
    (/\ tdIn # Idle /\ td # NotCalled
     /\ \/ HasStrayMinus(tdIn.s)
        \/ HasEmptyComponent(tdIn.s)
        \/ Contains(tdIn.s, <<".">>)
        \/ Len(ComponentsOf(tdIn.s)) > 3)
        => td.kind = "Error"

----------------------------------------------------------------------------
(* Properties of Clip.from_dict. *)

\* the text around the first "-" of s, trimmed: one text when s has no "-"
HalvesAt(s, i) ==
    IF i = 0 THEN <<Strip(s)>>
    ELSE <<Strip(SubSeq(s, 1, i - 1)), Strip(SubSeq(s, i + 1, Len(s)))>>

\* what timedelta_from_str makes of each trimmed half of a record's time
ParsedHalves(d) ==
    IF d.time.t = "absent" THEN <<>>
    ELSE [i \in 1..Len(HalvesAt(PyStr(d.time), Find(PyStr(d.time), <<"-">>)))
             |-> timedelta_from_str(HalvesAt(PyStr(d.time), Find(PyStr(d.time), <<"-">>))[i])]

BothParse(halves) ==
    Len(halves) = 2 /\ halves[1].kind = "timedelta" /\ halves[2].kind = "timedelta"

Overflows(halves) == \E i \in 1..Len(halves) : halves[i].kind = "OverflowError"

C16_StartNotNegative ==
    clipResult # NotCalled =>
        /\ clipResult.kind = "Clip" => clipResult.start >= 0
        /\ (data.time.t = "str" /\ StartsWith(LStrip(data.time.s), <<"-">>))
               => clipResult.kind = "Error"

\* "-1 - 0" has been refused
C16_Witness ==
    /\ data = ClipDict(Str(<<"-", "1", " ", "-", " ", "0">>), Str(<<"t">>))
    /\ clipResult = Error("error parsing timedelta")

C19_ClipOrError ==
    clipResult # NotCalled =>
        /\ clipResult.kind \in {"Clip", "Error"}
        /\ clipResult.kind = "Clip" =>
               /\ clipResult.title # <<>>
               /\ BothParse(ParsedHalves(data))
               /\ clipResult.end > clipResult.start

----------------------------------------------------------------------------
(* Properties of Video.from_dict and Job.from_dict. *)

IsRecord(x) == x.t = "dict"

\* a clips value that is present and is no list of records
BadClips(clips) ==
    /\ clips # Absent
    /\ clips.t # "list" \/ \E i \in 1..Len(clips.xs) : ~IsRecord(clips.xs[i])

\* a video record without date or title, or with such a clips value
RefusedVideo(v) == v.date = Absent \/ v.title = Absent \/ BadClips(v.clips)

\* C18: a video record without date or title, or whose clips is present and
\* is no list or holds an entry that is no record, raises Error, and no Clip
\* of such a list is built first: it is the error about clips that is raised,
\* not that of an earlier clip record.  A videos value that is no list or
\* holds an entry that is no record raises Error before any Video is built:
\* it is the error about the entry that is raised, not that of an earlier
\* video record.
C18_RecordsValidatedFirst ==
    pc # "load" =>
        /\ doc.videos.t = "str" => pc = "exit" /\ job = Idle /\ err = Error("invalid videos")
        /\ (doc.videos.t = "list" /\ \E v \in 1..Len(doc.videos.xs) : ~IsRecord(doc.videos.xs[v]))
               => pc = "exit" /\ job = Idle /\ err = Error("invalid video entry")
        /\ (/\ doc.videos.t = "list"
            /\ \A v \in 1..Len(doc.videos.xs) : IsRecord(doc.videos.xs[v])
            /\ \E v \in 1..Len(doc.videos.xs) : RefusedVideo(doc.videos.xs[v]))
               => pc = "exit" /\ job = Idle /\ err.kind = "Error"
        /\ (/\ doc.videos.t = "list" /\ Len(doc.videos.xs) >= 1
            /\ \A v \in 1..Len(doc.videos.xs) : IsRecord(doc.videos.xs[v])
            /\ doc.videos.xs[1].date = Str(DateOf(1))
            /\ doc.videos.xs[1].title # Absent
            /\ BadClips(doc.videos.xs[1].clips))
               => err = Error("bad video data: clips")

\* clips whose first entry is a clip record with a bad time and whose second
\* entry is no record: the error is the one about clips
C18_Witness ==
    /\ pc = "exit"
    /\ doc.videos.t = "list" /\ Len(doc.videos.xs) = 1
    /\ IsRecord(doc.videos.xs[1])
    /\ doc.videos.xs[1].clips = List(<<BadClipEntry, Str(<<>>)>>)
    /\ err = Error("bad video data: clips")
    /\ job = Idle /\ trace = <<>>

----------------------------------------------------------------------------
(* Clip.path_str called again: after the first call, a second call with   *)
(* the same arguments, with or without another call in between.  The      *)
(* mapping is empty, that of test_clip_path_str or one of a single entry. *)

InitCalls ==
    /\ \E case \in PathCases, title \in TitleValues,
          replace \in {DefaultReplace, TestReplace} \cup ReplacesOfLen(1) :
             call = [clip |-> case.clip, date |-> case.date, epoch |-> case.epoch,
                     title |-> title, config |-> [filename_replace |-> replace],
                     output_ext |-> <<"m", "k", "v">>]
    /\ path = NotCalled /\ between = FALSE /\ again = NotCalled
    /\ data = Idle /\ clipResult = NotCalled
    /\ JobIdle /\ TimeIdle /\ ArgvIdle /\ DatetimeIdle

NextCalls ==
    \/ PathStr
    \/ PathStrBetween
    \/ PathStrAgain

SpecCalls == InitCalls /\ [][NextCalls]_vars

MaxOpts == 2

\* the most calls of Config.from_argv in one run
MaxCalls == 2

\* the option arguments of tests/test_config.py, and two more that give the
\* key " " again and put a second "=" after the key
OptArgs ==
    { <<" ", "=", "_">>, <<" ", "=", ".", ".", ".">>, <<"+", "=">>,
      <<"e", "q", "u", "a", "l", "s", "=", "=">>,
      <<"=", "=", "e", "q", "u", "a", "l", "s">>,
      <<>>, <<"=">>, <<"=", "a", "n", "y", "t", "h", "i", "n", "g">>,
      <<"n", "o", "t", "-", "a", "-", "m", "a", "p", "p", "i", "n", "g">>,
      <<" ", "=", "x">>, <<"a", "=", "b", "=", "c">> }

RECURSIVE OptLists(_)
OptLists(n) ==
    IF n = 0 THEN {<<>>}
    ELSE {<<>>} \cup {<<a>> \o rest : a \in OptArgs, rest \in OptLists(n - 1)}

\* the Replace of the Prefs that from_argv reads: prefs if it is not None,
\* else the one of Prefs()
PrefsReplace(p) == IF p = "none" THEN "default" ELSE "given"

\* dict.__setitem__ without the overwrite: a key already present keeps its value
DictSetFirstWins(items, key, value, at) ==
    IF at = {} THEN Append(items, <<key, value>>) ELSE items

\* dict.__setitem__: a key already present keeps its place and takes the value
DictSetAt(items, key, value, at) ==
    IF at = {} THEN Append(items, <<key, value>>)
    ELSE [i \in 1..Len(items) |-> IF i \in at THEN <<key, value>> ELSE items[i]]

DictSet(items, key, value) ==
    DictSetAt(items, key, value, {i \in 1..Len(items) : items[i][1] = key})

\* config["filename_replace"][key] = value, on the object the call works on
SetItem(st, key, value) ==
    [st EXCEPT !.objs[st.ref] = DictSet(@, key, value)]

\* the Replace of the preferences itself, where the code builds a copy
ReplaceShared(st, src) == [st EXCEPT !.ref = src]

\* Replace(prefs.filename_replace): a new object with the entries of the
\* preferences' mapping
ReplaceCopy(st, src) == [st EXCEPT !.ref = "new", !.objs["new"] = st.objs[src]]

Raise(st, optarg) == [st EXCEPT !.raised = ErrorAbout("invalid replacement", optarg)]

\* one -r option, lines 187-199
FilenameReplaceOpt(st, optarg, src) ==
    IF optarg # <<>>
    THEN IF StartsWith(optarg, <<"=", "=">>) THEN SetItem(st, <<"=">>, Drop(optarg, 2))
         ELSE IF StartsWith(optarg, <<"=">>) THEN Raise(st, optarg)
         ELSE IF Contains(optarg, <<"=">>)
              THEN SetItem(st, Split(optarg, <<"=">>, 1)[1], Split(optarg, <<"=">>, 1)[2])
         ELSE Raise(st, optarg)
    ELSE ReplaceCopy(st, src)

\* the loop over the options, left by the first raise
RECURSIVE ForOpts(_, _, _)
ForOpts(st, optargs, src) ==
    IF optargs = <<>> \/ st.raised # NotCalled THEN st
    ELSE ForOpts(FilenameReplaceOpt(st, Head(optargs), src), Tail(optargs), src)

\* from_argv: config["filename_replace"] starts as a copy of the preferences'
\* mapping, then the options are gone through
from_argv(objs, optargs, src) ==
    ForOpts(ReplaceCopy([ref |-> src, raised |-> NotCalled,
                         objs |-> [default |-> objs.default, given |-> objs.given,
                                   new |-> <<>>]],
                        src),
            optargs, src)

\* cls(**config), or the Error raised
ConfigOf(st) ==
    IF st.raised # NotCalled THEN st.raised
    ELSE [kind |-> "Config", filename_replace |-> st.objs[st.ref]]

InitArgv ==
    /\ opts \in OptLists(MaxOpts)
    /\ prefs \in {"none", "given"}
    /\ objects = [default |-> DefaultReplace, given |-> TestReplace]
    /\ parsed = NotCalled /\ ncalls = 0
    /\ data = Idle /\ clipResult = NotCalled
    /\ call = Idle /\ path = NotCalled /\ between = FALSE /\ again = NotCalled
    /\ JobIdle /\ TimeIdle /\ DatetimeIdle

\* the first call, with the command line and the preferences chosen
FromArgv ==
    /\ ncalls = 0
    /\ \E st \in {from_argv(objects, opts, PrefsReplace(prefs))} :
          /\ parsed' = ConfigOf(st)
          /\ objects' = [default |-> st.objs.default, given |-> st.objs.given]
    /\ ncalls' = 1
    /\ UNCHANGED <<opts, prefs, clipVars, pathVars, jobVars, timeVars, dtVars>>

\* a later call, with a command line and preferences of its own
FromArgvAgain ==
    /\ ncalls \in 1..(MaxCalls - 1)
    /\ \E o \in OptLists(1), p \in {"none", "given"} :
          /\ opts' = o /\ prefs' = p
          /\ \E st \in {from_argv(objects, o, PrefsReplace(p))} :
                /\ parsed' = ConfigOf(st)
                /\ objects' = [default |-> st.objs.default, given |-> st.objs.given]
    /\ ncalls' = ncalls + 1
    /\ UNCHANGED <<clipVars, pathVars, jobVars, timeVars, dtVars>>

NextArgv ==
    \/ FromArgv
    \/ FromArgvAgain

SpecArgv == InitArgv /\ [][NextArgv]_vars

\* what the claims on the -r options say of one option argument
OptValid(a) ==
    /\ a # <<>>
    /\ \E i \in 1..Len(a) : a[i] = "="
    /\ a[1] = "=" => (Len(a) >= 2 /\ a[2] = "=")

FirstEquals(a) == CHOOSE i \in 1..Len(a) : a[i] = "=" /\ \A j \in 1..(i - 1) : a[j] # "="

OptKey(a) == IF a[1] = "=" THEN <<"=">> ELSE SubSeq(a, 1, FirstEquals(a) - 1)

OptValue(a) == IF a[1] = "=" THEN SubSeq(a, 3, Len(a)) ELSE SubSeq(a, FirstEquals(a) + 1, Len(a))

\* the place of the last empty option argument, 0 when there is none
LastEmpty == CHOOSE i \in 0..Len(opts) :
    /\ i > 0 => opts[i] = <<>>
    /\ \A j \in (i + 1)..Len(opts) : opts[j] # <<>>

\* the options after the last empty one that give the key k
Giving(k) == {i \in (LastEmpty + 1)..Len(opts) : OptKey(opts[i]) = k}

\* the entries given by the options after the last empty one, the last option
\* of a key giving its value
GivenEntries ==
    {<<OptKey(opts[i]), OptValue(opts[i])>> : i \in {j \in (LastEmpty + 1)..Len(opts) :
                                              \A l \in Giving(OptKey(opts[j])) : l <= j}}

\* the entries of the mapping of the preferences passed: none under the
\* default preferences, " " to "_" under the given ones
PrefsEntries == IF prefs = "none" THEN {} ELSE {<< <<" ">>, <<"_">> >>}

ParsedEntries == {parsed.filename_replace[i] : i \in 1..Len(parsed.filename_replace)}

C27_PrefsUnmodified == [][objects' = objects]_vars

\* a second call under the default preferences has returned a map with an
\* entry of its option, and the mapping of the default Prefs() is still empty
C27_Witness ==
    /\ ncalls = 2 /\ prefs = "none"
    /\ parsed.kind = "Config"
    /\ parsed.filename_replace = << << <<"+">>, <<>> >> >>
    /\ objects = [default |-> <<>>, given |-> << << <<" ">>, <<"_">> >> >>]

(***************************************************************************)
(* mvcs/time.py, datetime_from_str on its own: one string is parsed.  The  *)
(* strings are put together from a date, a separator and a time of day,    *)
(* those of tests/test_time.py and their near misses, with or without a    *)
(* space before and after.                                                 *)
(***************************************************************************)

\* the dates of test_datetime_from_str and test_datetime_from_str_invalid, and near misses
TestDates ==
    { <<"1", "9", "7", "0", "-", "0", "1", "-", "0", "1">>,
      <<"1", "9", "9", "9", "-", "1", "2", "-", "3", "1">>,
      <<"0", "0", "0", "1", "-", "0", "1", "-", "0", "1">>,
      <<"1", "9", "7", "0", "-", "1", "-", "0", "1">>,
      <<"1", "9", "7", "0", "-", "0", "1", "-", "1">>,
      <<"0", "0", "0", "0", "-", "0", "1", "-", "0", "1">>,
      <<"1", "9", "7", "0", "-", "0", "0", "-", "0", "1">>,
      <<"1", "9", "7", "0", "-", "1", "3", "-", "0", "1">>,
      <<"1", "9", "7", "0", "-", "0", "2", "-", "0", "0">>,
      <<"1", "9", "7", "0", "-", "0", "2", "-", "2", "9">>,
      <<"9", "9", "9", "-", "0", "1", "-", "0", "1">>,
      <<"1", "9", "7", "2", "-", "0", "2", "-", "2", "9">>,
      <<"1", "9", "7", "0", "-", "0", "1", "-", " ", "1">>,
      <<"1", "9", "7", "0", "-", "0", "1", "-", " ", "0", "1">>,
      <<"1", "9", "7", "0", "0", "-", "0", "1", "-", "0", "1">>,
      <<"1", "9", "7", "0", "-", "0", "0", "1", "-", "0", "1">>,
      <<"1", "9", "7", "0", "-", "0", "4", "-", "3", "1">> }

\* what stands between the date and the time of day
TestSeparators ==
    { <<"T">>,
      <<" ">>,
      <<"t">>,
      <<" ", " ">>,
      <<"\t">>,
      <<"\n">>,
      <<>>,
      <<"-">>,
      <<"T", " ">> }

\* the times of day of the tests, and near misses
TestTimesOfDay ==
    { <<"0", "0", ":", "0", "0", ":", "0", "0">>,
      <<"2", "3", ":", "5", "9", ":", "5", "9">>,
      <<"0", ":", "0", "0", ":", "0", "0">>,
      <<"0", "0", ":", "0", ":", "0", "0">>,
      <<"0", "0", ":", "0", "0", ":", "0">>,
      <<"2", "4", ":", "0", "0", ":", "0", "0">>,
      <<"0", "0", ":", "6", "0", ":", "0", "0">>,
      <<"0", "0", ":", "0", "0", ":", "6", "0">>,
      <<"0", "0", ":", "0", "0", ":", "6", "1">>,
      <<"0", "0", ":", "0", "0">>,
      <<"0", "0", ":", "0", "0", ":", "0", "0", ":", "0", "0">>,
      <<"1", ":", "2", ":", "3">> }

InitDatetime ==
    /\ \/ dtIn = Str(<<>>)
       \/ \E lead \in {<<>>, <<" ">>}, date \in TestDates, sep \in TestSeparators,
             time \in TestTimesOfDay, trail \in {<<>>, <<" ">>} :
             dtIn = Str(lead \o date \o sep \o time \o trail)
    /\ dtOut = NotCalled
    /\ data = Idle /\ clipResult = NotCalled
    /\ call = Idle /\ path = NotCalled /\ between = FALSE /\ again = NotCalled
    /\ JobIdle /\ TimeIdle /\ ArgvIdle

DatetimeFromStr ==
    /\ dtOut = NotCalled
    /\ dtOut' = datetime_from_str(dtIn.s)
    /\ UNCHANGED <<dtIn, clipVars, pathVars, jobVars, timeVars, argvVars>>

NextDatetime == DatetimeFromStr

SpecDatetime == InitDatetime /\ [][NextDatetime]_vars

\* a field of one or two digits (zero-padding optional) with a value in lo..hi
StrictField(tok, lo, hi) ==
    /\ Len(tok) \in {1, 2}
    /\ \A i \in 1..Len(tok) : tok[i] \in Digits
    /\ (IF Len(tok) = 1 THEN DigitVal(tok[1])
        ELSE 10 * DigitVal(tok[1]) + DigitVal(tok[2])) \in lo..hi

\* a year of exactly four digits, 0001 at least
StrictYear(tok) ==
    /\ Len(tok) = 4
    /\ \A i \in 1..4 : tok[i] \in Digits
    /\ tok # <<"0", "0", "0", "0">>

StrictYearVal(tok) ==
    1000 * DigitVal(tok[1]) + 100 * DigitVal(tok[2]) + 10 * DigitVal(tok[3]) + DigitVal(tok[4])

StrictMonthLen(y, mo) ==
    IF mo = 2 THEN (IF (y % 4 = 0 /\ y % 100 # 0) \/ y % 400 = 0 THEN 29 ELSE 28)
    ELSE IF mo \in {4, 6, 9, 11} THEN 30 ELSE 31

\* the places of the character c in s
PlacesOf(s, c) == {i \in 1..Len(s) : s[i] = c}

\* s is 'Y-M-D<sep>h:m:s' with the two dashes at d1 < d2, the separator at
\* sp and the two colons at c1 < c2
StrictAt(s, d1, d2, sp, c1, c2) ==
    /\ StrictYear(SubSeq(s, 1, d1 - 1))
    /\ StrictField(SubSeq(s, d1 + 1, d2 - 1), 1, 12)
    /\ StrictField(SubSeq(s, d2 + 1, sp - 1), 1, 31)
    /\ StrictField(SubSeq(s, d2 + 1, sp - 1), 1,
                   StrictMonthLen(StrictYearVal(SubSeq(s, 1, d1 - 1)),
                                  IntBodyVal(SubSeq(s, d1 + 1, d2 - 1), 0)))
    /\ StrictField(SubSeq(s, sp + 1, c1 - 1), 0, 23)
    /\ StrictField(SubSeq(s, c1 + 1, c2 - 1), 0, 59)
    /\ StrictField(SubSeq(s, c2 + 1, Len(s)), 0, 59)

\* the format C22 states: the separator is a literal "T" or a single space
StrictDatetime(s) ==
    \E d1 \in PlacesOf(s, "-"), d2 \in PlacesOf(s, "-"), sp \in PlacesOf(s, "T") \cup PlacesOf(s, " "),
       c1 \in PlacesOf(s, ":"), c2 \in PlacesOf(s, ":") :
        /\ d1 < d2 /\ d2 < sp /\ sp < c1 /\ c1 < c2
        /\ StrictAt(s, d1, d2, sp, c1, c2)

\* C22 as stated: datetime_from_str returns a datetime exactly for the
\* strings 'Y-M-D<sep>h:m:s' whose separator is a literal "T" or a single
\* space, whose year has exactly four digits and is 0001 at least, whose
\* month is 1..12, whose day is one the month has, whose hour is 0..23 and
\* whose minute and second are 0..59, zero-padded or not; for every other
\* string, the empty one and those with a space before or after among them,
\* it raises Error.
C22_ExactFormat ==
    dtOut # NotCalled =>
        /\ dtOut.kind \in {"datetime", "Error"}
        /\ dtOut.kind = "datetime" <=> StrictDatetime(dtIn.s)

\* C23: the trim invocations of one run for two clips of the same video that
\* have the same title and different start times are given different
\* destination paths.
C23_DistinctDestinations ==
    \A i \in 1..Len(trace), j \in 1..Len(trace) :
        (/\ i < j
         /\ trace[i].op = "ffmpeg" /\ trace[j].op = "ffmpeg"
         /\ trace[i].v = trace[j].v
         /\ job.videos[trace[i].v].clips[trace[i].c].title
                = job.videos[trace[j].v].clips[trace[j].c].title
         /\ job.videos[trace[i].v].clips[trace[i].c].start
                # job.videos[trace[j].v].clips[trace[j].c].start)
            => trace[i].cmd.out # trace[j].cmd.out

\* the list object that the Video built from the record d, the v-th of the
\* document, holds as its clips: without a "clips" key cls(**video) falls
\* back on the default of the field, the one list made when the class was
\* defined; with the key it is the list the comprehension of value_fn made
clips_list(d, v) ==
    IF d.clips.t = "absent" THEN [list |-> "Video.clips default"]
    ELSE [list |-> "comprehension", video |-> v]

\* the list object that the Job built from the document d holds as its
\* videos: always the list the comprehension of line 181 made
videos_list(d) == [list |-> "comprehension", job |-> d]

\* C24: no two Videos of a Job built by Job.from_dict hold the same list
\* object as their clips, those built from records without a clips key
\* included, and the Job does not hold the default list of its class as its
\* videos.
C24_FreshContainers ==
    pc \notin {"load", "exit"} =>
        /\ \A v \in 1..Len(job.videos), w \in 1..Len(job.videos) :
              v # w => clips_list(doc.videos.xs[v], v) # clips_list(doc.videos.xs[w], w)
        /\ videos_list(doc) # [list |-> "Job.videos default"]

\* C25: every trim invocation of the run is given as its start offset the
\* start of its clip in seconds, whatever the epoch of the video, and that
\* offset is not negative; and as its duration the end of the clip less its
\* start, which is more than zero.
C25_TrimWindow ==
    \A i \in 1..Len(trace) :
        trace[i].op = "ffmpeg" =>
            /\ trace[i].cmd.ss = job.videos[trace[i].v].clips[trace[i].c].start
            /\ trace[i].cmd.ss >= 0
            /\ trace[i].cmd.t + trace[i].cmd.ss = job.videos[trace[i].v].clips[trace[i].c].end
            /\ trace[i].cmd.t > 0

\* under an epoch of one minute, the clip "30-40" was trimmed from second 30
\* on for 10 seconds
C25_Witness ==
    /\ Len(trace) >= 4
    /\ job.videos[1].epoch = 60
    /\ trace[4].op = "ffmpeg"
    /\ trace[4].cmd.ss = 30 /\ trace[4].cmd.t = 10

IndexOfChecks(checks) == [i \in 1..Len(checks) |-> checks[i].v]

\* the videos whose source file was looked for, in the order of the checks
CheckedVideos(tr) == IndexOfChecks(SelectSeq(tr, LAMBDA e : e.op = "is_file"))

\* C26: the source files looked for during the run are those of the videos
\* reached, the first to the current one, each once and in document order,
\* the videos without clips included; the check of a video comes after every
\* trim of the videos before it and before every trim of its own; and a check
\* that does not find the file is the last thing the run does: it ends with
\* the Error "missing video file" and no later video is checked or trimmed.
C26_CheckedOnceFirst ==
    /\ CheckedVideos(trace)
          = [k \in 1..(IF pc \in {"run", "done"} THEN vi - 1 ELSE vi) |-> k]
    /\ \A i \in 1..Len(trace), j \in 1..Len(trace) :
          (i < j /\ trace[j].op = "is_file") => trace[i].v < trace[j].v
    /\ \A j \in 1..Len(trace) :
          trace[j].op = "ffmpeg" =>
              \E i \in 1..(j - 1) :
                  trace[i].op = "is_file" /\ trace[i].v = trace[j].v /\ trace[i].found
    /\ \A i \in 1..Len(trace) :
          (trace[i].op = "is_file" /\ ~trace[i].found) =>
              /\ i = Len(trace)
              /\ pc = "exit"
              /\ err.kind = "Error" /\ err.msg = "missing video file"

\* the first of two videos has no clips and its source file is missing: the
\* run has ended on that check
C26_Witness ==
    /\ pc = "exit"
    /\ Len(trace) = 1
    /\ trace[1].op = "is_file" /\ trace[1].v = 1 /\ ~trace[1].found
    /\ Len(job.videos) = 2
    /\ job.videos[1].clips = <<>>

====
